---- MODULE Spec2Model ----
(***************************************************************************)
(* lumberjack-axe: the UI-thread / worker-thread bridge.                   *)
(*                                                                         *)
(* The application loop (App::update, one pass per frame) issues           *)
(* WorkerRequests over an unbounded std::sync::mpsc queue; one background  *)
(* thread (worker_loop) serves them one at a time and answers on the       *)
(* per-request reply channel; the next frames poll the reply with          *)
(* try_recv.                                                               *)
(*                                                                         *)
(* Texts (String) are sequences of one-character strings so that trim()    *)
(* is computed, not assumed.  Times are milliseconds.                      *)
(* App fields view, should_close and theme only drive rendering and are    *)
(* left out.                                                               *)
(***************************************************************************)
EXTENDS Integers, Sequences, FiniteSets, TLC

VARIABLES
    app,      \* struct App (with its LogsViewState in app.logs_view)
    queue,    \* the request queue between WorkerHandle.sender and worker_loop's rx
    worker,   \* the worker thread: [pc, req]
    chans,    \* the reply channels, by channel id: [tx, rx, buf]
    now,      \* the monotonic clock read by Instant::now(), in milliseconds
    handles,  \* the owners of the live WorkerHandles (senders of the request queue)
    time_range, \* a TimeRangeConfig and the lookback computed from it: [config, lookback]
    obs       \* history: whether the most recent step was a frame, and for a frame
              \* what its poll steps saw (fetch_poll, groups_poll), the kinds of the
              \* requests it sent (sent), whether it stored a handle over one still
              \* held (held), whether its tail timer fired (tail_fired)

vars == <<app, queue, worker, chans, now, handles, time_range, obs>>

\* Option<T>: None, Some(x)
None == <<>>
Some(x) == <<x>>
Unwrap(o) == o[1]

\* Result<T, E>
Ok(v) == [tag |-> "Ok", val |-> v]
Err(e) == [tag |-> "Err", val |-> e]

----------------------------------------------------------------------------
(* Bounds of the model *)

\* number of reply-channel ids available at the same time
NumChans == 3
\* the clock stops advancing here
MaxNow == 5000

ChanIds == 1..NumChans

----------------------------------------------------------------------------
(* Time ranges: filtering.rs *)

\* u64 values are written in three limbs <<a, b, c>> of base Limb, standing for
\* a * Limb^2 + b * Limb + c
Limb == 10000000

\* u64::MAX = 18446744073709551615
U64Max == <<184467, 4407370, 9551615>>

\* the u64 of a small number
U64(n) == <<0, n \div Limb, n % Limb>>

\* x <= y on limbs
LessEq(x, y) ==
    \/ x[1] < y[1]
    \/ x[1] = y[1] /\ x[2] < y[2]
    \/ x[1] = y[1] /\ x[2] = y[2] /\ x[3] <= y[3]

\* the product x * k in limbs, for a small k; the first limb takes what is left
MulSmall(x, k) ==
    LET c == x[3] * k
        b == x[2] * k + c \div Limb
        a == x[1] * k + b \div Limb
    IN  <<a, b % Limb, c % Limb>>

\* u64::saturating_mul by a small factor
saturating_mul(x, k) ==
    LET p == MulSmall(x, k) IN IF LessEq(p, U64Max) THEN p ELSE U64Max

\* Ord::max
u64_max(x, y) == IF LessEq(x, y) THEN y ELSE x

TimeRangeKinds == {"Last5m", "Last15m", "Last1h", "Custom"}

\* TimeRangeConfig::default
TimeRangeConfig_default ==
    [kind |-> "Last5m", custom_value |-> U64(5), custom_is_minutes |-> TRUE]

\* a lookback without the lower bound of one second
lookback_duration_unclamped(cfg) ==
    CASE cfg.kind = "Last5m"  -> U64(5 * 60)
      [] cfg.kind = "Last15m" -> U64(15 * 60)
      [] cfg.kind = "Last1h"  -> U64(60 * 60)
      [] cfg.kind = "Custom"  ->
            IF cfg.custom_is_minutes
            THEN saturating_mul(cfg.custom_value, 60)
            ELSE cfg.custom_value

\* TimeRangeConfig::lookback_duration, in seconds
lookback_duration(cfg) ==
    CASE cfg.kind = "Last5m"  -> U64(5 * 60)
      [] cfg.kind = "Last15m" -> U64(15 * 60)
      [] cfg.kind = "Last1h"  -> U64(60 * 60)
      [] cfg.kind = "Custom"  ->
            LET secs == IF cfg.custom_is_minutes
                        THEN saturating_mul(cfg.custom_value, 60)
                        ELSE cfg.custom_value
            IN  u64_max(secs, U64(1))

\* a time range whose lookback has not been computed
TimeRangeIdle == [config |-> TimeRangeConfig_default, lookback |-> None]

----------------------------------------------------------------------------
(* Texts *)

Space == " "

RECURSIVE TrimStart(_)
TrimStart(s) ==
    IF s = <<>> THEN <<>>
    ELSE IF Head(s) = Space THEN TrimStart(Tail(s)) ELSE s

RECURSIVE TrimEnd(_)
TrimEnd(s) ==
    IF s = <<>> THEN <<>>
    ELSE IF s[Len(s)] = Space THEN TrimEnd(SubSeq(s, 1, Len(s) - 1)) ELSE s

\* str::trim
Trim(s) == TrimEnd(TrimStart(s))

\* a normalisation that passes every text on as it is
SomeAlways(s) == Some(s)

\* `if x.trim().is_empty() { None } else { Some(x) }`
NoneIfBlank(s) == IF Trim(s) = <<>> THEN None ELSE Some(s)

TextForm == <<"f", "o", "r", "m">>
TextEuWest1 == <<"e", "u", "-", "w", "e", "s", "t", "-", "1">>
GroupA == <<"/", "a">>
GroupB == <<"/", "b">>
GroupBRaw == <<Space, "/", "b", Space>>

----------------------------------------------------------------------------
(* Initial state *)

\* the derived Default of LogsViewState: every field empty, false or zero
LogsViewState_default ==
    [ profile              |-> <<>>,
      region               |-> <<>>,
      log_group            |-> <<>>,
      filter_text          |-> <<>>,
      tail_mode            |-> FALSE,
      show_local_time      |-> FALSE,
      entries              |-> <<>>,
      available_groups     |-> <<>>,
      selected_group_index |-> None,
      tail_interval_secs   |-> 0,
      last_tail_instant    |-> None ]

\* LogsViewState::new_default
LogsViewState_new_default ==
    [ profile              |-> TextForm,
      region               |-> TextEuWest1,
      log_group            |-> <<>>,
      filter_text          |-> <<>>,
      tail_mode            |-> FALSE,
      show_local_time      |-> FALSE,
      entries              |-> <<>>,
      available_groups     |-> <<>>,
      selected_group_index |-> None,
      tail_interval_secs   |-> 5,
      last_tail_instant    |-> None ]

\* App::new
App_new ==
    [ logs_view         |-> LogsViewState_new_default,
      last_error        |-> None,
      is_fetching       |-> FALSE,
      fetch_rx          |-> None,
      groups_rx         |-> None,
      is_loading_groups |-> FALSE ]

\* a channel id nobody holds an end of
ClosedChan == [tx |-> FALSE, rx |-> FALSE, buf |-> <<>>]

ObsIdle(step) ==
    [ step        |-> step,
      fetch_poll  |-> "none",
      groups_poll |-> "none",
      sent        |-> <<>>,
      held        |-> FALSE,
      tail_fired  |-> FALSE ]

\* spawn_worker: the queue is created empty and the worker thread blocks in rx.recv()
\* The WorkerHandles alive once the App is constructed: the one spawn_worker
\* returned to main, and the clone App::new was given. (The clone in AppShared
\* is dropped with the creator closure that made the App.)
Owners == {"main", "app"}

Init ==
    /\ app = App_new
    /\ queue = <<>>
    /\ worker = [pc |-> "recv", req |-> None]
    /\ chans = [c \in ChanIds |-> ClosedChan]
    /\ now = 0
    /\ handles = Owners
    /\ time_range = TimeRangeIdle
    /\ obs = ObsIdle("env")

----------------------------------------------------------------------------
(* Reply channels: std::sync::mpsc::channel, one per request *)

IsFree(ch) == ~ch.tx /\ ~ch.rx

FreeChans(cs) == {c \in ChanIds : IsFree(cs[c])}

\* the id given to the next channel created
FreshChan(cs) == CHOOSE c \in FreeChans(cs) : \A d \in FreeChans(cs) : c <= d

\* `let (tx, rx) = std::sync::mpsc::channel()`
NewChan == [tx |-> TRUE, rx |-> TRUE, buf |-> <<>>]

\* Sender::send on a reply channel: fails (and the value is dropped) when the
\* receiver is gone
ChanSend(ch, v) == IF ch.rx THEN [ch EXCEPT !.buf = Append(@, v)] ELSE ch

\* dropping the Sender
DropTx(ch) == [ch EXCEPT !.tx = FALSE]

\* dropping the Receiver: what is still buffered goes with it
DropRx(ch) == [ch EXCEPT !.rx = FALSE, !.buf = <<>>]

\* Receiver::try_recv: a buffered value first, then Empty while a sender lives,
\* Disconnected otherwise
TryRecv(ch) ==
    IF ch.buf # <<>> THEN [tag |-> "Value", val |-> Head(ch.buf)]
    ELSE IF ch.tx THEN [tag |-> "Empty", val |-> None]
    ELSE [tag |-> "Disconnected", val |-> None]

\* a blocking recv: it returns only with a value or a disconnection
BlockingRecvReturns(ch) == ch.buf # <<>> \/ ~ch.tx

\* try_recv never waits: it returns in every state of the channel
TryRecvReturns(ch) == TRUE

----------------------------------------------------------------------------
(* Errors *)

\* AwsLogError::CloudWatch
CloudWatchError(log_group, source) ==
    [variant |-> "CloudWatch", log_group |-> log_group, source |-> source]

\* AwsLogError::ListLogGroups
ListLogGroupsError(region, message) ==
    [variant |-> "ListLogGroups", region |-> region, message |-> message]

\* <String as Debug>::fmt of a text without quotes, backslashes or control
\* characters: the text between double quotes
DebugStr(s) == <<"\"">> \o s \o <<"\"">>

\* the thiserror Display of AwsLogError, as the pieces format! joins:
\* {log_group:?} is the Debug form, {region}, {source} and {message} the Display
Display(err) ==
    IF err.variant = "CloudWatch"
    THEN <<"CloudWatch Logs request failed for log group ", DebugStr(err.log_group),
           ": ", err.source>>
    ELSE <<"failed to list CloudWatch log groups in region ", err.region, ": ", err.message>>

PleaseSelect == <<"Please select a log group.">>

----------------------------------------------------------------------------
(* The worker bridge, UI side *)

\* a send that reports the lost worker to the user instead of ignoring it
WorkerHandle_send_reports(m, req) ==
    IF m.alive
    THEN [m EXCEPT !.queue = Append(@, req), !.obs.sent = Append(@, req.kind)]
    ELSE [m EXCEPT !.chans[req.respond_to] = DropTx(@), !.obs.sent = Append(@, req.kind),
                   !.app.last_error = Some(<<"worker unavailable">>)]

\* a send that keeps the request, and with it the reply sender, when the worker
\* is gone
WorkerHandle_send_keeps_request(m, req) ==
    IF m.alive
    THEN [m EXCEPT !.queue = Append(@, req), !.obs.sent = Append(@, req.kind)]
    ELSE [m EXCEPT !.obs.sent = Append(@, req.kind)]

\* WorkerHandle::send on the machine m: `let _ = self.sender.send(req)`.
\* With the receiving end gone the request comes back in the SendError and is
\* dropped there, its reply sender with it.
WorkerHandle_send(m, req) ==
    IF m.alive
    THEN [m EXCEPT !.queue = Append(@, req), !.obs.sent = Append(@, req.kind)]
    ELSE [m EXCEPT !.chans[req.respond_to] = DropTx(@), !.obs.sent = Append(@, req.kind)]

\* the unbounded queue never makes the sender wait
SendReturns(q) == TRUE

Lookback5m == 300

\* `self.fetch_rx = Some(rx)`: a receiver still held there would be dropped
StoreFetchRx(m, c) ==
    LET old == m.app.fetch_rx
        m1 == IF old = None THEN m
              ELSE [m EXCEPT !.chans[Unwrap(old)] = DropRx(@), !.obs.held = TRUE]
    IN  [m1 EXCEPT !.app.fetch_rx = Some(c)]

\* `self.groups_rx = Some(rx)`: a receiver still held there would be dropped
StoreGroupsRx(m, c) ==
    LET old == m.app.groups_rx
        m1 == IF old = None THEN m
              ELSE [m EXCEPT !.chans[Unwrap(old)] = DropRx(@), !.obs.held = TRUE]
    IN  [m1 EXCEPT !.app.groups_rx = Some(c)]

\* a start_fetch_logs without the early return on is_fetching
start_fetch_logs_unguarded(m, lookback) ==
    LET lv == m.app.logs_view
        log_group == Trim(lv.log_group)
    IN  IF log_group = <<>>
        THEN [m EXCEPT !.app.last_error = Some(PleaseSelect)]
        ELSE IF FreeChans(m.chans) = {} THEN [m EXCEPT !.ok = FALSE]
        ELSE
        LET c == FreshChan(m.chans)
            m1 == [m EXCEPT !.app.logs_view.log_group = log_group,
                            !.app.is_fetching = TRUE,
                            !.app.last_error = None,
                            !.chans[c] = NewChan]
            m2 == WorkerHandle_send(m1,
                    [ kind           |-> "FetchRecentLogs",
                      profile        |-> NoneIfBlank(lv.profile),
                      region         |-> NoneIfBlank(lv.region),
                      log_group      |-> log_group,
                      filter_pattern |-> NoneIfBlank(lv.filter_text),
                      lookback       |-> lookback,
                      limit          |-> 1000,
                      respond_to     |-> c ])
        IN  StoreFetchRx(m2, c)

\* a start_fetch_logs that sends whatever the log group is
start_fetch_logs_unvalidated(m, lookback) ==
    IF m.app.is_fetching THEN m
    ELSE IF FreeChans(m.chans) = {} THEN [m EXCEPT !.ok = FALSE]
    ELSE
    LET lv == m.app.logs_view
        log_group == Trim(lv.log_group)
        c == FreshChan(m.chans)
        m1 == [m EXCEPT !.app.logs_view.log_group = log_group,
                        !.app.is_fetching = TRUE,
                        !.app.last_error = None,
                        !.chans[c] = NewChan]
        m2 == WorkerHandle_send(m1,
                [ kind           |-> "FetchRecentLogs",
                  profile        |-> NoneIfBlank(lv.profile),
                  region         |-> NoneIfBlank(lv.region),
                  log_group      |-> log_group,
                  filter_pattern |-> NoneIfBlank(lv.filter_text),
                  lookback       |-> lookback,
                  limit          |-> 1000,
                  respond_to     |-> c ])
    IN  StoreFetchRx(m2, c)

\* App::start_fetch_logs
start_fetch_logs(m, lookback) ==
    IF m.app.is_fetching THEN m
    ELSE
    LET lv == m.app.logs_view
        log_group == Trim(lv.log_group)
    IN  IF log_group = <<>>
        THEN [m EXCEPT !.app.last_error = Some(PleaseSelect)]
        ELSE IF FreeChans(m.chans) = {} THEN [m EXCEPT !.ok = FALSE]
        ELSE
        LET c == FreshChan(m.chans)
            m1 == [m EXCEPT !.app.logs_view.log_group = log_group,
                            !.app.is_fetching = TRUE,
                            !.app.last_error = None,
                            !.chans[c] = NewChan]
            m2 == WorkerHandle_send(m1,
                    [ kind           |-> "FetchRecentLogs",
                      profile        |-> NoneIfBlank(lv.profile),
                      region         |-> NoneIfBlank(lv.region),
                      log_group      |-> log_group,
                      filter_pattern |-> NoneIfBlank(lv.filter_text),
                      lookback       |-> lookback,
                      limit          |-> 1000,
                      respond_to     |-> c ])
        IN  StoreFetchRx(m2, c)

\* a start_load_log_groups that keeps the list and the selection until the reply
start_load_log_groups_keeps_list(m) ==
    IF FreeChans(m.chans) = {} THEN [m EXCEPT !.ok = FALSE]
    ELSE
    LET lv == m.app.logs_view
        c == FreshChan(m.chans)
        m1 == [m EXCEPT !.app.last_error = None,
                        !.app.is_loading_groups = TRUE,
                        !.chans[c] = NewChan]
        m2 == WorkerHandle_send(m1,
                [ kind       |-> "ListLogGroups",
                  profile    |-> NoneIfBlank(lv.profile),
                  region     |-> NoneIfBlank(lv.region),
                  limit      |-> 50,
                  respond_to |-> c ])
    IN  StoreGroupsRx(m2, c)

\* a start_load_log_groups that empties the list and keeps the selection
start_load_log_groups_keeps_selection(m) ==
    IF FreeChans(m.chans) = {} THEN [m EXCEPT !.ok = FALSE]
    ELSE
    LET lv == m.app.logs_view
        c == FreshChan(m.chans)
        m1 == [m EXCEPT !.app.logs_view.available_groups = <<>>,
                        !.app.last_error = None,
                        !.app.is_loading_groups = TRUE,
                        !.chans[c] = NewChan]
        m2 == WorkerHandle_send(m1,
                [ kind       |-> "ListLogGroups",
                  profile    |-> NoneIfBlank(lv.profile),
                  region     |-> NoneIfBlank(lv.region),
                  limit      |-> 50,
                  respond_to |-> c ])
    IN  StoreGroupsRx(m2, c)

\* a start_load_log_groups that also empties the log_group text
start_load_log_groups_clears_group(m) ==
    IF FreeChans(m.chans) = {} THEN [m EXCEPT !.ok = FALSE]
    ELSE
    LET lv == m.app.logs_view
        c == FreshChan(m.chans)
        m1 == [m EXCEPT !.app.logs_view.available_groups = <<>>,
                        !.app.logs_view.selected_group_index = None,
                        !.app.logs_view.log_group = <<>>,
                        !.app.last_error = None,
                        !.app.is_loading_groups = TRUE,
                        !.chans[c] = NewChan]
        m2 == WorkerHandle_send(m1,
                [ kind       |-> "ListLogGroups",
                  profile    |-> NoneIfBlank(lv.profile),
                  region     |-> NoneIfBlank(lv.region),
                  limit      |-> 50,
                  respond_to |-> c ])
    IN  StoreGroupsRx(m2, c)

\* App::start_load_log_groups
start_load_log_groups(m) ==
    IF FreeChans(m.chans) = {} THEN [m EXCEPT !.ok = FALSE]
    ELSE
    LET lv == m.app.logs_view
        c == FreshChan(m.chans)
        m1 == [m EXCEPT !.app.logs_view.available_groups = <<>>,
                        !.app.logs_view.selected_group_index = None,
                        !.app.last_error = None,
                        !.app.is_loading_groups = TRUE,
                        !.chans[c] = NewChan]
        m2 == WorkerHandle_send(m1,
                [ kind       |-> "ListLogGroups",
                  profile    |-> NoneIfBlank(lv.profile),
                  region     |-> NoneIfBlank(lv.region),
                  limit      |-> 50,
                  respond_to |-> c ])
    IN  StoreGroupsRx(m2, c)

----------------------------------------------------------------------------
(* The application loop: App::update, one pass per frame *)

\* a merge that appends the new entries to the old list
FetchMergedAppends(m, c, entries) ==
    [m EXCEPT !.app.logs_view.entries = @ \o entries,
              !.app.is_fetching = FALSE,
              !.app.fetch_rx = None,
              !.chans[c] = DropRx(@),
              !.obs.fetch_poll = "ok"]

\* a merge that also clears the error message
FetchMergedClearsError(m, c, entries) ==
    [m EXCEPT !.app.logs_view.entries = entries,
              !.app.last_error = None,
              !.app.is_fetching = FALSE,
              !.app.fetch_rx = None,
              !.chans[c] = DropRx(@),
              !.obs.fetch_poll = "ok"]

\* a merge that forgets the last trigger, so that the interval starts anew
FetchMergedForgetsTrigger(m, c, entries) ==
    [m EXCEPT !.app.logs_view.entries = entries,
              !.app.logs_view.last_tail_instant = None,
              !.app.is_fetching = FALSE,
              !.app.fetch_rx = None,
              !.chans[c] = DropRx(@),
              !.obs.fetch_poll = "ok"]

\* the Ok(Ok(entries)) arm of "Poll fetch results"; c is the channel of fetch_rx
FetchMerged(m, c, entries) ==
    [m EXCEPT !.app.logs_view.entries = entries,
              !.app.is_fetching = FALSE,
              !.app.fetch_rx = None,
              !.chans[c] = DropRx(@),
              !.obs.fetch_poll = "ok"]

\* a failure arm that also empties the entry list
FetchFailedClearsEntries(m, c, err) ==
    [m EXCEPT !.app.last_error = Some(Display(err)),
              !.app.logs_view.entries = <<>>,
              !.app.is_fetching = FALSE,
              !.app.fetch_rx = None,
              !.chans[c] = DropRx(@),
              !.obs.fetch_poll = "err"]

\* the Ok(Err(err)) arm
FetchFailed(m, c, err) ==
    [m EXCEPT !.app.last_error = Some(Display(err)),
              !.app.is_fetching = FALSE,
              !.app.fetch_rx = None,
              !.chans[c] = DropRx(@),
              !.obs.fetch_poll = "err"]

\* an Empty arm that gives up waiting
FetchPendingGivesUp(m, c) ==
    [m EXCEPT !.app.is_fetching = FALSE,
              !.app.fetch_rx = None,
              !.chans[c] = DropRx(@),
              !.obs.fetch_poll = "empty"]

\* the Err(TryRecvError::Empty) arm
FetchPending(m, c) == [m EXCEPT !.obs.fetch_poll = "empty"]

\* a Disconnected arm that reports the loss
FetchDisconnectedReports(m, c) ==
    [m EXCEPT !.app.last_error = Some(<<"background worker unavailable">>),
              !.app.is_fetching = FALSE,
              !.app.fetch_rx = None,
              !.chans[c] = DropRx(@),
              !.obs.fetch_poll = "disconnected"]

\* the Err(TryRecvError::Disconnected) arm
FetchDisconnected(m, c) ==
    [m EXCEPT !.app.is_fetching = FALSE,
              !.app.fetch_rx = None,
              !.chans[c] = DropRx(@),
              !.obs.fetch_poll = "disconnected"]

\* "Poll fetch results"
PollFetch(m) ==
    IF m.app.fetch_rx = None THEN m
    ELSE
    LET c == Unwrap(m.app.fetch_rx)
        r == TryRecv(m.chans[c])
    IN  IF r.tag = "Value" /\ r.val.tag = "Ok" THEN FetchMerged(m, c, r.val.val)
        ELSE IF r.tag = "Value" THEN FetchFailed(m, c, r.val.val)
        ELSE IF r.tag = "Empty" THEN FetchPending(m, c)
        ELSE FetchDisconnected(m, c)

\* a merge that keeps the selection whatever the length of the new list
GroupsMergedKeepsSelection(m, c, groups) ==
    [m EXCEPT !.app.logs_view.available_groups = groups,
              !.app.groups_rx = None,
              !.app.is_loading_groups = FALSE,
              !.chans[c] = DropRx(@),
              !.obs.groups_poll = "ok"]

\* a groups merge that also empties the entry list
GroupsMergedClearsEntries(m, c, groups) ==
    LET idx == m.app.logs_view.selected_group_index IN
    [m EXCEPT !.app.logs_view.available_groups = groups,
              !.app.logs_view.entries = <<>>,
              !.app.logs_view.selected_group_index =
                   IF idx # None /\ Unwrap(idx) >= Len(groups) THEN None ELSE idx,
              !.app.groups_rx = None,
              !.app.is_loading_groups = FALSE,
              !.chans[c] = DropRx(@),
              !.obs.groups_poll = "ok"]

\* the Ok(Ok(groups)) arm of "Poll group list results"; c is the channel of groups_rx
GroupsMerged(m, c, groups) ==
    LET idx == m.app.logs_view.selected_group_index IN
    [m EXCEPT !.app.logs_view.available_groups = groups,
              !.app.logs_view.selected_group_index =
                   IF idx # None /\ Unwrap(idx) >= Len(groups) THEN None ELSE idx,
              !.app.groups_rx = None,
              !.app.is_loading_groups = FALSE,
              !.chans[c] = DropRx(@),
              !.obs.groups_poll = "ok"]

\* the Ok(Err(err)) arm
GroupsFailed(m, c, err) ==
    [m EXCEPT !.app.last_error = Some(Display(err)),
              !.app.groups_rx = None,
              !.app.is_loading_groups = FALSE,
              !.chans[c] = DropRx(@),
              !.obs.groups_poll = "err"]

\* the Err(TryRecvError::Empty) arm
GroupsPending(m, c) == [m EXCEPT !.obs.groups_poll = "empty"]

\* a Disconnected arm that drops the handle and leaves the flag set
GroupsDisconnectedKeepsFlag(m, c) ==
    [m EXCEPT !.app.groups_rx = None,
              !.chans[c] = DropRx(@),
              !.obs.groups_poll = "disconnected"]

\* the Err(TryRecvError::Disconnected) arm
GroupsDisconnected(m, c) ==
    [m EXCEPT !.app.groups_rx = None,
              !.app.is_loading_groups = FALSE,
              !.chans[c] = DropRx(@),
              !.obs.groups_poll = "disconnected"]

\* "Poll group list results"
PollGroups(m) ==
    IF m.app.groups_rx = None THEN m
    ELSE
    LET c == Unwrap(m.app.groups_rx)
        r == TryRecv(m.chans[c])
    IN  IF r.tag = "Value" /\ r.val.tag = "Ok" THEN GroupsMerged(m, c, r.val.val)
        ELSE IF r.tag = "Value" THEN GroupsFailed(m, c, r.val.val)
        ELSE IF r.tag = "Empty" THEN GroupsPending(m, c)
        ELSE GroupsDisconnected(m, c)

\* a conversion to seconds that rounds up
AsSecsRoundedUp(ms) == (ms + 999) \div 1000

\* Duration::as_secs of a duration in milliseconds
AsSecs(ms) == ms \div 1000

\* a tail timer that does not look at is_fetching
TailLogicIgnoresInFlight(m, t) ==
    LET lv == m.app.logs_view IN
    IF lv.tail_mode
    THEN LET should_trigger ==
                 IF lv.last_tail_instant # None
                 THEN AsSecs(t - Unwrap(lv.last_tail_instant)) >= lv.tail_interval_secs
                 ELSE TRUE
         IN  IF should_trigger
             THEN [start_fetch_logs(m, Lookback5m) EXCEPT
                       !.app.logs_view.last_tail_instant = Some(t),
                       !.obs.tail_fired = TRUE]
             ELSE m
    ELSE [m EXCEPT !.app.logs_view.last_tail_instant = None]

\* a tail timer that keeps last_tail_instant while tail mode is off
TailLogicKeepsMarker(m, t) ==
    LET lv == m.app.logs_view IN
    IF lv.tail_mode /\ ~m.app.is_fetching
    THEN LET should_trigger ==
                 IF lv.last_tail_instant # None
                 THEN AsSecs(t - Unwrap(lv.last_tail_instant)) >= lv.tail_interval_secs
                 ELSE TRUE
         IN  IF should_trigger
             THEN [start_fetch_logs(m, Lookback5m) EXCEPT
                       !.app.logs_view.last_tail_instant = Some(t),
                       !.obs.tail_fired = TRUE]
             ELSE m
    ELSE m

\* a tail timer that looks back only one tail interval
TailLogicShortLookback(m, t) ==
    LET lv == m.app.logs_view IN
    IF lv.tail_mode /\ ~m.app.is_fetching
    THEN LET should_trigger ==
                 IF lv.last_tail_instant # None
                 THEN AsSecs(t - Unwrap(lv.last_tail_instant)) >= lv.tail_interval_secs
                 ELSE TRUE
         IN  IF should_trigger
             THEN [start_fetch_logs(m, lv.tail_interval_secs) EXCEPT
                       !.app.logs_view.last_tail_instant = Some(t),
                       !.obs.tail_fired = TRUE]
             ELSE m
    ELSE IF ~lv.tail_mode
    THEN [m EXCEPT !.app.logs_view.last_tail_instant = None]
    ELSE m

\* a tail timer that records the trigger time only when a request was sent
TailLogicRecordsOnlySent(m, t) ==
    LET lv == m.app.logs_view IN
    IF lv.tail_mode /\ ~m.app.is_fetching
    THEN LET should_trigger ==
                 IF lv.last_tail_instant # None
                 THEN AsSecs(t - Unwrap(lv.last_tail_instant)) >= lv.tail_interval_secs
                 ELSE TRUE
             r == start_fetch_logs(m, Lookback5m)
         IN  IF should_trigger
             THEN [r EXCEPT
                       !.app.logs_view.last_tail_instant =
                           IF r.app.is_fetching THEN Some(t) ELSE @,
                       !.obs.tail_fired = TRUE]
             ELSE m
    ELSE IF ~lv.tail_mode
    THEN [m EXCEPT !.app.logs_view.last_tail_instant = None]
    ELSE m

\* "Tail logic"; t is what Instant::now() returns
TailLogic(m, t) ==
    LET lv == m.app.logs_view IN
    IF lv.tail_mode /\ ~m.app.is_fetching
    THEN LET should_trigger ==
                 IF lv.last_tail_instant # None
                 THEN AsSecs(t - Unwrap(lv.last_tail_instant)) >= lv.tail_interval_secs
                 ELSE TRUE
         IN  IF should_trigger
             THEN [start_fetch_logs(m, Lookback5m) EXCEPT
                       !.app.logs_view.last_tail_instant = Some(t),
                       !.obs.tail_fired = TRUE]
             ELSE m
    ELSE IF ~lv.tail_mode
    THEN [m EXCEPT !.app.logs_view.last_tail_instant = None]
    ELSE m

\* a Load groups button that is never disabled
LoadButtonAlwaysEnabled(m) == TRUE

\* ui.add_enabled(!self.is_loading_groups, Button "Load groups")
LoadButtonEnabled(m) == ~m.app.is_loading_groups

\* ui.add_enabled(!self.is_fetching, Button "Fetch last 5m")
FetchButtonEnabled(m) == ~m.app.is_fetching

\* one click on the i-th label of the log-group combo box (0-based)
ComboClick(m, i) ==
    IF i < Len(m.app.logs_view.available_groups)
    THEN [m EXCEPT !.app.logs_view.selected_group_index = Some(i),
                   !.app.logs_view.log_group = m.app.logs_view.available_groups[i + 1]]
    ELSE m

\* "Top bar": the profile and region fields, Load groups, the combo box, Fetch
TopBar(m, in) ==
    LET m1 == IF in.profile # None
              THEN [m EXCEPT !.app.logs_view.profile = Unwrap(in.profile)] ELSE m
        m2 == IF in.region # None
              THEN [m1 EXCEPT !.app.logs_view.region = Unwrap(in.region)] ELSE m1
        m3 == IF in.load /\ LoadButtonEnabled(m2) THEN start_load_log_groups(m2) ELSE m2
        m4 == IF in.group_click # None THEN ComboClick(m3, Unwrap(in.group_click)) ELSE m3
    IN  IF in.fetch /\ FetchButtonEnabled(m4) THEN start_fetch_logs(m4, Lookback5m) ELSE m4

\* a DragValue without a range
DragValue_unbounded(v) == v

\* egui::DragValue::new(&mut interval).range(1..=300): the value the widget
\* leaves in `interval` when the user drags or types v
DragValue_range(v) == IF v < 1 THEN 1 ELSE IF v > 300 THEN 300 ELSE v

\* ui_logs::draw_logs_view: the filter field (Enter fetches), the Tail and Local
\* time checkboxes, the interval DragValue (in.interval is what the user drags
\* or types)
draw_logs_view(m, in) ==
    LET m1 == IF in.filter # None
              THEN [m EXCEPT !.app.logs_view.filter_text = Unwrap(in.filter)] ELSE m
        m2 == IF in.enter THEN start_fetch_logs(m1, Lookback5m) ELSE m1
        m3 == IF in.tail
              THEN [m2 EXCEPT !.app.logs_view.tail_mode = ~@] ELSE m2
        m4 == IF in.local_time
              THEN [m3 EXCEPT !.app.logs_view.show_local_time = ~@] ELSE m3
    IN  IF in.interval # None
        THEN LET interval == DragValue_range(Unwrap(in.interval)) IN
             [m4 EXCEPT !.app.logs_view.tail_interval_secs =
                            IF interval > 1 THEN interval ELSE 1]
        ELSE m4

\* the state a frame starts from
Machine ==
    [ app   |-> app,
      queue |-> queue,
      chans |-> chans,
      alive |-> worker.pc \in {"recv", "serving"},
      obs   |-> ObsIdle("frame"),
      ok    |-> TRUE ]

\* App::update, in the order of its code
Update(m, t, in) == draw_logs_view(TopBar(TailLogic(PollGroups(PollFetch(m)), t), in), in)

\* every receive of the poll steps and every send of a frame returns at once
FrameReturns(m) ==
    /\ m.app.fetch_rx # None => TryRecvReturns(m.chans[Unwrap(m.app.fetch_rx)])
    /\ m.app.groups_rx # None => TryRecvReturns(m.chans[Unwrap(m.app.groups_rx)])
    /\ SendReturns(m.queue)

NoInput ==
    [ profile     |-> None,
      region      |-> None,
      load        |-> FALSE,
      group_click |-> None,
      fetch       |-> FALSE,
      filter      |-> None,
      enter       |-> FALSE,
      tail        |-> FALSE,
      local_time  |-> FALSE,
      interval    |-> None ]

----------------------------------------------------------------------------
(* The status bar: status_bar.rs *)

\* the horizontal ellipsis and the e with acute accent, characters of three and
\* of two bytes in UTF-8, each written by its code point
Ellipsis == "U+2026"
EAcute == "U+00E9"

\* char::len_utf8 of the characters the model types and prints
len_utf8(ch) ==
    CASE ch = Ellipsis -> 3
      [] ch = EAcute -> 2
      [] OTHER -> 1

\* the characters of the fixed pieces of a message (any other piece counts as
\* one character)
CharsOf(piece) ==
    CASE piece = "CloudWatch Logs request failed for log group " ->
           <<"C", "l", "o", "u", "d", "W", "a", "t", "c", "h", " ", "L", "o", "g",
             "s", " ", "r", "e", "q", "u", "e", "s", "t", " ", "f", "a", "i", "l",
             "e", "d", " ", "f", "o", "r", " ", "l", "o", "g", " ", "g", "r", "o",
             "u", "p", " ">>
      [] piece = "failed to list CloudWatch log groups in region " ->
           <<"f", "a", "i", "l", "e", "d", " ", "t", "o", " ", "l", "i", "s", "t",
             " ", "C", "l", "o", "u", "d", "W", "a", "t", "c", "h", " ", "l", "o",
             "g", " ", "g", "r", "o", "u", "p", "s", " ", "i", "n", " ", "r", "e",
             "g", "i", "o", "n", " ">>
      [] piece = ": " ->
           <<":", " ">>
      [] piece = "AccessDenied" ->
           <<"A", "c", "c", "e", "s", "s", "D", "e", "n", "i", "e", "d">>
      [] piece = "ExpiredTokenException" ->
           <<"E", "x", "p", "i", "r", "e", "d", "T", "o", "k", "e", "n", "E", "x",
             "c", "e", "p", "t", "i", "o", "n">>
      [] piece = "Please select a log group." ->
           <<"P", "l", "e", "a", "s", "e", " ", "s", "e", "l", "e", "c", "t", " ",
             "a", " ", "l", "o", "g", " ", "g", "r", "o", "u", "p", ".">>
      [] OTHER -> <<piece>>

\* the String format! builds of the pieces of a message
MessageChars(msg) ==
    IF Len(msg) = 4
    THEN CharsOf(msg[1]) \o msg[2] \o CharsOf(msg[3]) \o CharsOf(msg[4])
    ELSE CharsOf(msg[1])

\* the places in s of the characters of w bytes
MultiByte(s, w) == {i \in 1..Len(s) : len_utf8(s[i]) = w}

\* the bytes of the first k characters of a text whose characters of two bytes
\* are at the places `two` and those of three bytes at the places `three`
BytesOfPrefix(k, two, three) ==
    k + Cardinality({i \in two : i <= k}) + 2 * Cardinality({i \in three : i <= k})

\* str::len: the length in bytes
str_len(s) == Len(s) + Cardinality(MultiByte(s, 2)) + 2 * Cardinality(MultiByte(s, 3))

\* the numbers of leading characters of s that end at byte n (one number, or
\* none when byte n lies inside a character or beyond the end)
CharsUpTo(s, n) ==
    UNION { { k \in (n \div 3)..(IF n < Len(s) THEN n ELSE Len(s)) :
                BytesOfPrefix(k, w[1], w[2]) = n }
            : w \in { <<MultiByte(s, 2), MultiByte(s, 3)>> } }

\* str::is_char_boundary
is_char_boundary(s, n) == CharsUpTo(s, n) # {}

\* &s[..n] where n is a character boundary
SliceTo(s, n) == SubSeq(s, 1, CHOOSE k \in CharsUpTo(s, n) : TRUE)

\* status_bar.rs compute_status: `err.len() > 61`, `&err[..58]`
StatusErrMax == 61
StatusErrKeep == 58

\* what compute_status returns, or the panic of a slice off a character boundary
StatusOk(text, is_error) == [tag |-> "Ok", text |-> text, is_error |-> is_error]
StatusPanic == [tag |-> "Panic", text |-> <<>>, is_error |-> FALSE]

\* the App as status_bar.rs reads it: the fields of mod.rs and last_info
WithInfo(a, info) == [last_info |-> info] @@ a

\* compute_status, the branch of an error message err
error_status(err) ==
    IF str_len(err) > StatusErrMax
    THEN IF is_char_boundary(err, StatusErrKeep)
         THEN StatusOk(<<"Error: ">> \o SliceTo(err, StatusErrKeep) \o <<Ellipsis>>, TRUE)
         ELSE StatusPanic
    ELSE StatusOk(<<"Error: ">> \o err, TRUE)

\* status_bar.rs compute_status
compute_status(a) ==
    IF a.is_fetching THEN StatusOk(<<"Fetching logs", Ellipsis>>, FALSE)
    ELSE IF a.is_loading_groups THEN StatusOk(<<"Loading log groups", Ellipsis>>, FALSE)
    ELSE IF a.last_error # None
    THEN CHOOSE st \in { error_status(err) : err \in {MessageChars(Unwrap(a.last_error))} } :
             TRUE
    ELSE IF a.last_info # None THEN StatusOk(Unwrap(a.last_info), FALSE)
    ELSE StatusOk(<<"Ready">>, FALSE)

\* status_bar.rs draw_status_bar panics where compute_status does (the error
\* branch is taken before last_info is read)
draw_status_bar_panics(a) == compute_status(WithInfo(a, None)).tag = "Panic"

\* the frame with input `in` can run to its end: none of its calls waits, and
\* the model has a channel id for every channel it creates; frames are rendered
\* while the App exists
FrameEnabled(in) ==
    /\ "app" \in handles
    /\ FrameReturns(Machine)
    /\ Update(Machine, now, in).ok

\* one frame with the user input `in`; a panic of the status bar, the last call
\* of update, unwinds the UI thread: the App and main's locals are dropped, and
\* with them both WorkerHandles and the receivers the App held
Frame(in) ==
    /\ FrameEnabled(in)
    /\ \E m \in {Update(Machine, now, in)} :
       \E panics \in {draw_status_bar_panics(m.app)} :
          /\ app' = m.app
          /\ queue' = m.queue
          /\ chans' = IF panics
                      THEN [c \in ChanIds |->
                              IF Some(c) \in {m.app.fetch_rx, m.app.groups_rx}
                              THEN DropRx(m.chans[c]) ELSE m.chans[c]]
                      ELSE m.chans
          /\ obs' = IF panics THEN [m.obs EXCEPT !.step = "panic"] ELSE m.obs
          /\ handles' = IF panics THEN {} ELSE handles
    /\ UNCHANGED <<worker, now, time_range>>

----------------------------------------------------------------------------
(* The Remote Log Service, as aws.rs wraps it *)

\* a mapping that treats the stream name like the other two fields
filtered_to_entry_stream_defaulted(event) ==
    [ timestamp_millis |-> IF event.timestamp = None THEN 0 ELSE Unwrap(event.timestamp),
      message          |-> IF event.message = None THEN <<>> ELSE Unwrap(event.message),
      log_stream_name  |-> Some(IF event.log_stream_name = None
                                THEN <<>> ELSE Unwrap(event.log_stream_name)) ]

\* aws.rs filtered_to_entry
filtered_to_entry(event) ==
    [ timestamp_millis |-> IF event.timestamp = None THEN 0 ELSE Unwrap(event.timestamp),
      message          |-> IF event.message = None THEN <<>> ELSE Unwrap(event.message),
      log_stream_name  |-> event.log_stream_name ]

\* resp.events.unwrap_or_default().into_iter().map(filtered_to_entry).collect()
EntriesOf(events) ==
    LET evs == IF events = None THEN <<>> ELSE Unwrap(events)
    IN  [i \in 1..Len(evs) |-> filtered_to_entry(evs[i])]

HasName(g) == g.log_group_name # None

\* resp.log_groups.unwrap_or_default().into_iter()
\*     .filter_map(|g| g.log_group_name.map(|name| name.trim().to_string())).collect()
GroupNamesOf(log_groups) ==
    LET gs == IF log_groups = None THEN <<>> ELSE Unwrap(log_groups)
        named == SelectSeq(gs, HasName)
    IN  [i \in 1..Len(named) |-> Trim(Unwrap(named[i].log_group_name))]

\* aws.rs fetch_recent_logs: the pattern given to the FilterLogEvents request,
\* `pattern.trim()` unless the request has none or the trimmed one is empty
filter_pattern_sent(params) ==
    IF params.filter_pattern = None THEN None
    ELSE IF Trim(Unwrap(params.filter_pattern)) = <<>> THEN None
    ELSE Some(Trim(Unwrap(params.filter_pattern)))

\* aws.rs fetch_recent_logs: the service's answer `resp` (Ok(events) or Err(source))
\* turned into the worker's result
fetch_recent_logs(params, resp) ==
    IF resp.tag = "Ok" THEN Ok(EntriesOf(resp.val))
    ELSE Err(CloudWatchError(params.log_group, resp.val))

\* a page-size cap that passes every positive limit on
describe_log_groups_limit_uncapped(limit) == IF limit > 0 THEN Some(limit) ELSE None

\* aws.rs list_log_groups: the page-size cap set on the DescribeLogGroups
\* request, `if limit > 0 { req = req.limit(std::cmp::min(limit, 50)) }`
describe_log_groups_limit(limit) ==
    IF limit > 0 THEN Some(IF limit < 50 THEN limit ELSE 50) ELSE None

\* DescribeLogGroups returns at most as many groups as the cap of the request
PageFits(resp, cap) ==
    (resp.tag = "Ok" /\ resp.val # None /\ cap # None) => Len(Unwrap(resp.val)) <= Unwrap(cap)

\* aws.rs list_log_groups: the region shown for a request without one
RegionDefault == <<"<", "d", "e", "f", "a", "u", "l", "t", ">">>

\* aws.rs list_log_groups
list_log_groups(region, resp) ==
    IF resp.tag = "Ok" THEN Ok(GroupNamesOf(resp.val))
    ELSE Err(ListLogGroupsError(IF region = None THEN RegionDefault ELSE Unwrap(region),
                                resp.val))

Event1 ==
    [ timestamp       |-> Some(1700000123),
      message         |-> Some(<<"h", "i">>),
      log_stream_name |-> Some(<<"s">>) ]

Event2 == [timestamp |-> None, message |-> None, log_stream_name |-> None]

\* what FilterLogEvents may answer
FetchResponses == {Ok(Some(<<Event1, Event2>>)), Ok(Some(<<Event2>>)), Err("AccessDenied")}

\* what DescribeLogGroups may answer
GroupResponses ==
    { Ok(Some(<< [log_group_name |-> Some(GroupA)],
                 [log_group_name |-> None],
                 [log_group_name |-> Some(GroupBRaw)] >>)),
      Ok(None),
      Err("ExpiredTokenException") }

----------------------------------------------------------------------------
(* The worker thread: worker.rs worker_loop *)

\* a worker that takes the newest queued request first
WorkerRecvNewestFirst ==
    /\ worker.pc = "recv"
    /\ queue # <<>>
    /\ worker' = [pc |-> "serving", req |-> Some(queue[Len(queue)])]
    /\ queue' = SubSeq(queue, 1, Len(queue) - 1)
    /\ obs' = ObsIdle("env")
    /\ UNCHANGED <<app, chans, now, handles, time_range>>

\* a worker that discards, unserved, a request whose reply receiver is gone
WorkerRecvSkipsCancelled ==
    /\ worker.pc = "recv"
    /\ queue # <<>>
    /\ IF chans[Head(queue).respond_to].rx
       THEN /\ worker' = [pc |-> "serving", req |-> Some(Head(queue))]
            /\ chans' = chans
       ELSE /\ worker' = worker
            /\ chans' = [chans EXCEPT ![Head(queue).respond_to] = DropTx(@)]
    /\ queue' = Tail(queue)
    /\ obs' = ObsIdle("env")
    /\ UNCHANGED <<app, now, handles, time_range>>

\* `while let Ok(req) = rx.recv()`: the oldest queued request is taken and its
\* match arm starts the service call
WorkerRecv ==
    /\ worker.pc = "recv"
    /\ queue # <<>>
    /\ worker' = [pc |-> "serving", req |-> Some(Head(queue))]
    /\ queue' = Tail(queue)
    /\ obs' = ObsIdle("env")
    /\ UNCHANGED <<app, chans, now, handles, time_range>>

\* a worker that keeps the reply sender without using it
RespondLeaksSender(cs, c, result) == cs

\* a worker that sends its result twice
RespondTwice(cs, c, result) ==
    [cs EXCEPT ![c] = DropTx(ChanSend(ChanSend(@, result), result))]

\* `let _ = respond_to.send(result)`, after which the arm ends and respond_to is dropped
Respond(cs, c, result) == [cs EXCEPT ![c] = DropTx(ChanSend(@, result))]

\* a worker whose thread ends when the service call fails
FetchReturnsDiesOnError ==
    /\ worker.pc = "serving"
    /\ Unwrap(worker.req).kind = "FetchRecentLogs"
    /\ \E resp \in FetchResponses :
          IF resp.tag = "Ok"
          THEN /\ chans' = Respond(chans, Unwrap(worker.req).respond_to,
                                   fetch_recent_logs(Unwrap(worker.req), resp))
               /\ worker' = [pc |-> "recv", req |-> None]
          ELSE /\ chans' = [chans EXCEPT ![Unwrap(worker.req).respond_to] = DropTx(@)]
               /\ worker' = [pc |-> "dead", req |-> None]
    /\ obs' = ObsIdle("env")
    /\ UNCHANGED <<app, queue, now, handles, time_range>>

\* the FetchRecentLogs arm: fetch_recent_logs(params).await returns, the result is sent
FetchReturns ==
    /\ worker.pc = "serving"
    /\ Unwrap(worker.req).kind = "FetchRecentLogs"
    /\ \E resp \in FetchResponses :
          chans' = Respond(chans, Unwrap(worker.req).respond_to,
                           fetch_recent_logs(Unwrap(worker.req), resp))
    /\ worker' = [pc |-> "recv", req |-> None]
    /\ obs' = ObsIdle("env")
    /\ UNCHANGED <<app, queue, now, handles, time_range>>

\* the ListLogGroups arm
ListReturns ==
    /\ worker.pc = "serving"
    /\ Unwrap(worker.req).kind = "ListLogGroups"
    /\ \E resp \in GroupResponses :
          /\ PageFits(resp, describe_log_groups_limit(Unwrap(worker.req).limit))
          /\ chans' = Respond(chans, Unwrap(worker.req).respond_to,
                              list_log_groups(Unwrap(worker.req).region, resp))
    /\ worker' = [pc |-> "recv", req |-> None]
    /\ obs' = ObsIdle("env")
    /\ UNCHANGED <<app, queue, now, handles, time_range>>

\* the reply senders owned by the requests in q
SendersIn(q) == {q[i].respond_to : i \in 1..Len(q)}

\* The worker thread panics (the runtime fails to build, or a service call
\* panics): unwinding drops rx, with it every queued request, and the request
\* being served.
WorkerPanic ==
    /\ worker.pc \in {"recv", "serving"}
    /\ LET gone == SendersIn(queue) \cup
                   (IF worker.req = None THEN {} ELSE {Unwrap(worker.req).respond_to})
       IN  chans' = [c \in ChanIds |-> IF c \in gone THEN DropTx(chans[c]) ELSE chans[c]]
    /\ queue' = <<>>
    /\ worker' = [pc |-> "dead", req |-> None]
    /\ obs' = ObsIdle("env")
    /\ UNCHANGED <<app, now, handles, time_range>>

----------------------------------------------------------------------------
(* Time *)

\* the clock advances between frames
TickMillis == 5000

Tick ==
    /\ now + TickMillis <= MaxNow
    /\ now' = now + TickMillis
    /\ obs' = ObsIdle("env")
    /\ UNCHANGED <<app, queue, worker, chans, handles, time_range>>

----------------------------------------------------------------------------
(* Specification *)

\* One event of a frame: a click on Load groups, on a combo-box label, on Fetch,
\* the Enter key in the filter field, a click on the Tail checkbox
Events ==
    { [NoInput EXCEPT !.load = TRUE],
      [NoInput EXCEPT !.group_click = Some(0)],
      [NoInput EXCEPT !.group_click = Some(1)],
      [NoInput EXCEPT !.fetch = TRUE],
      [NoInput EXCEPT !.enter = TRUE],
      [NoInput EXCEPT !.tail = TRUE] }

\* two events delivered to the same frame
Both(a, b) ==
    [ k \in DOMAIN NoInput |-> IF a[k] # NoInput[k] THEN a[k] ELSE b[k] ]

\* the user's input to one frame: nothing, one event, or a key press or a second
\* trigger arriving in the frame of a click
Inputs ==
    {NoInput} \cup Events \cup
    { Both([NoInput EXCEPT !.fetch = TRUE], [NoInput EXCEPT !.enter = TRUE]),
      Both([NoInput EXCEPT !.load = TRUE], [NoInput EXCEPT !.fetch = TRUE]),
      Both([NoInput EXCEPT !.load = TRUE], [NoInput EXCEPT !.enter = TRUE]) }

FrameStep == \E in \in Inputs : Frame(in)

Next ==
    \/ FrameStep
    \/ WorkerRecv
    \/ FetchReturns
    \/ ListReturns
    \/ WorkerPanic
    \/ Tick

Spec == Init /\ [][Next]_vars

\* The inputs of the liveness specification: no event, or a click on Load groups,
\* on the first combo-box label, or on Fetch
LiveInputs ==
    { NoInput,
      [NoInput EXCEPT !.load = TRUE],
      [NoInput EXCEPT !.group_click = Some(0)],
      [NoInput EXCEPT !.fetch = TRUE] }

LiveFrameStep == \E in \in LiveInputs : Frame(in)

LiveNext ==
    \/ LiveFrameStep
    \/ WorkerRecv
    \/ FetchReturns
    \/ ListReturns
    \/ WorkerPanic

\* Frames keep being rendered whether or not there is input, the worker thread
\* keeps running while it lives (its blocking recv returns once a request is
\* queued), and every service call returns.  Nothing obliges the worker to
\* panic or the user to act.  update itself never asks for a repaint: that
\* frames keep coming is a premise on the toolkit and the user, not something
\* the code arranges.
FairSpec ==
    /\ Init
    /\ [][LiveNext]_vars
    /\ WF_vars(Frame(NoInput))
    /\ WF_vars(WorkerRecv)
    /\ WF_vars(FetchReturns)
    /\ WF_vars(ListReturns)

----------------------------------------------------------------------------
(* Claims *)

\* the requests the worker side holds: the one being served, then the queue
Outstanding == (IF worker.req = None THEN <<>> ELSE <<Unwrap(worker.req)>>) \o queue

CountKind(kind) == Cardinality({i \in 1..Len(Outstanding) : Outstanding[i].kind = kind})

HandleOf(kind) == IF kind = "FetchRecentLogs" THEN app.fetch_rx ELSE app.groups_rx

\* C1: at most one fetch and at most one list-groups request is outstanding
\* (queued or being served) in every reachable state; every outstanding request
\* is the one whose reply handle the application holds, every live receiver is
\* one of the two handles, and no frame sends two requests of a kind or stores
\* a handle over one still held.
C1_AtMostOneOutstanding ==
    /\ CountKind("FetchRecentLogs") <= 1
    /\ CountKind("ListLogGroups") <= 1
    /\ \A i \in 1..Len(Outstanding) :
          /\ HandleOf(Outstanding[i].kind) = Some(Outstanding[i].respond_to)
          /\ chans[Outstanding[i].respond_to].rx
    /\ \A c \in ChanIds : chans[c].rx => (app.fetch_rx = Some(c) \/ app.groups_rx = Some(c))
    /\ app.fetch_rx # None /\ app.groups_rx # None => app.fetch_rx # app.groups_rx
    /\ ~obs.held
    /\ \A i, j \in 1..Len(obs.sent) : i # j => obs.sent[i] # obs.sent[j]

\* C1 witness: a frame ran with one request of each kind outstanding, both
\* replies still pending, and the tail interval elapsed since the last trigger
C1_Witness ==
    /\ obs.step = "frame"
    /\ obs.fetch_poll = "empty"
    /\ obs.groups_poll = "empty"
    /\ CountKind("FetchRecentLogs") = 1
    /\ CountKind("ListLogGroups") = 1
    /\ app.logs_view.tail_mode
    /\ app.logs_view.last_tail_instant = Some(0)
    /\ now = 5000

\* C2: the worker takes the oldest queued request, and only when no call is in
\* progress; a call in progress is not replaced; when a call ends its reply has
\* been sent (or the send failed because the receiver is gone) and the sender is
\* dropped; the queue only loses its head to the worker or grows at its tail
\* (or is dropped whole with a worker that dies).
C2_FifoOneAtATime ==
    [][ /\ (worker'.pc = "serving" /\ worker'.req # worker.req) =>
              /\ worker.pc = "recv"
              /\ worker.req = None
              /\ queue # <<>>
              /\ worker'.req = Some(Head(queue))
              /\ queue' = Tail(queue)
        /\ (worker.pc = "serving" /\ worker'.pc = "recv") =>
              LET c == Unwrap(worker.req).respond_to IN
              /\ ~chans'[c].tx
              /\ chans[c].rx => Len(chans'[c].buf) = Len(chans[c].buf) + 1
        /\ (queue' # queue) =>
              \/ queue # <<>> /\ queue' = Tail(queue) /\ worker'.req = Some(Head(queue))
              \/ Len(queue') > Len(queue) /\ SubSeq(queue', 1, Len(queue)) = queue
              \/ queue' = <<>> /\ worker'.pc = "dead"
      ]_vars

\* C2 witness: the worker serves a list-groups request while a fetch request,
\* enqueued after it, waits in the queue with no reply yet
C2_Witness ==
    /\ worker.pc = "serving"
    /\ Unwrap(worker.req).kind = "ListLogGroups"
    /\ Len(queue) = 1
    /\ queue[1].kind = "FetchRecentLogs"
    /\ chans[queue[1].respond_to].buf = <<>>
    /\ chans[Unwrap(worker.req).respond_to].buf = <<>>

PollFinal == {"ok", "err", "disconnected"}

\* C3: under FairSpec, whenever is_fetching is set a later frame's poll of
\* fetch_rx ends the wait (a result, a failure or a disconnection: the arms that
\* clear the flag and drop the handle), and the same for is_loading_groups and
\* groups_rx.
C3_EventuallyAnswered ==
    /\ app.is_fetching ~> (obs.fetch_poll \in PollFinal)
    /\ app.is_loading_groups ~> (obs.groups_poll \in PollFinal)

\* C3 witness: a frame's poll received the reply of a fetch that an earlier
\* frame had polled as pending, and nothing is in flight afterwards
C3_Witness ==
    /\ obs.step = "frame"
    /\ obs.fetch_poll \in {"ok", "err"}
    /\ obs.sent = <<>>
    /\ ~app.is_fetching
    /\ app.fetch_rx = None
    /\ worker.pc = "recv"

C5_SendBestEffort ==
    (obs.step = "frame" /\ obs.sent # <<>>) =>
        LET n == Len(obs.sent)
            k == Len(queue)
        IN  /\ \A i \in 1..n : HandleOf(obs.sent[i]) # None
            /\ worker.pc # "dead" =>
                  /\ k >= n
                  /\ \A i \in 1..n :
                        /\ queue[k - n + i].kind = obs.sent[i]
                        /\ Some(queue[k - n + i].respond_to) = HandleOf(obs.sent[i])
                        /\ chans[queue[k - n + i].respond_to] = NewChan
            /\ worker.pc = "dead" =>
                  /\ queue = <<>>
                  /\ \A i \in 1..n :
                        chans[Unwrap(HandleOf(obs.sent[i]))] = DropTx(NewChan)
                  /\ app.last_error \in {None, Some(PleaseSelect)}

\* C5 witness: a frame sent a list-groups and a fetch request to a terminated
\* worker and completed
C5_Witness ==
    /\ obs.step = "frame"
    /\ worker.pc = "dead"
    /\ obs.sent = <<"ListLogGroups", "FetchRecentLogs">>
    /\ app.is_fetching
    /\ app.is_loading_groups

\* what the frame starting in the current state receives on fetch_rx
FetchRecv == TryRecv(chans[Unwrap(app.fetch_rx)])

\* the machine after "Poll fetch results" of the frame starting in the current state
AfterFetchPoll == PollFetch(Machine)

\* what that frame receives on groups_rx
GroupsRecv == TryRecv(AfterFetchPoll.chans[Unwrap(app.groups_rx)])

\* the machine after both poll steps
AfterPoll == PollGroups(AfterFetchPoll)

FetchGot(tag) == app.fetch_rx # None /\ FetchRecv.tag = "Value" /\ FetchRecv.val.tag = tag

GroupsGot(tag) == app.groups_rx # None /\ GroupsRecv.tag = "Value" /\ GroupsRecv.val.tag = tag

\* C6: whenever a successful fetch result is ready on fetch_rx, the poll step
\* makes the entry list exactly the entries received, in their order, clears
\* is_fetching and drops the handle; the rest of the poll leaves the list alone.
C6_FetchSuccessReplaces ==
    FetchGot("Ok") =>
        /\ AfterFetchPoll.app.logs_view.entries = FetchRecv.val.val
        /\ AfterPoll.app.logs_view.entries = FetchRecv.val.val
        /\ ~AfterFetchPoll.app.is_fetching
        /\ AfterFetchPoll.app.fetch_rx = None
        /\ ~AfterFetchPoll.chans[Unwrap(app.fetch_rx)].rx

\* C6 witness: a successful result is ready while the entry list holds other
\* entries, and the poll step replaces them by the entries received
C6_Witness ==
    /\ FetchGot("Ok")
    /\ app.logs_view.entries # <<>>
    /\ FetchRecv.val.val # <<>>
    /\ FetchRecv.val.val # app.logs_view.entries
    /\ AfterFetchPoll.app.logs_view.entries = FetchRecv.val.val

\* C7 as claimed: right after the poll step merges a successful result, of
\* either kind, no error message is set.
C7_SuccessClearsError ==
    /\ FetchGot("Ok") => AfterFetchPoll.app.last_error = None
    /\ GroupsGot("Ok") => AfterPoll.app.last_error = None

\* C7 amended: merging a successful result leaves the error message as it was
\* before the merge (it was cleared when the request was issued, and a message
\* recorded since then stays).
C7_SuccessKeepsError ==
    /\ FetchGot("Ok") => AfterFetchPoll.app.last_error = app.last_error
    /\ GroupsGot("Ok") => AfterPoll.app.last_error = AfterFetchPoll.app.last_error

\* C7 witness: a frame merged a successful fetch result, polled no list-groups
\* failure, and the message of a list-groups failure polled by an earlier frame
\* is still set
C7_Witness ==
    /\ obs.step = "frame"
    /\ obs.fetch_poll = "ok"
    /\ obs.groups_poll # "err"
    /\ app.last_error # None
    /\ Unwrap(app.last_error)[1] = "failed to list CloudWatch log groups in region "

\* C8: whenever a failure is ready on a reply handle, the poll step records its
\* message, clears that kind's flag, drops the handle, and leaves the entry
\* list, the group list and the selection as they were.
C8_FailureKeepsData ==
    /\ FetchGot("Err") =>
          /\ AfterFetchPoll.app.last_error = Some(Display(FetchRecv.val.val))
          /\ ~AfterFetchPoll.app.is_fetching
          /\ AfterFetchPoll.app.fetch_rx = None
          /\ ~AfterFetchPoll.chans[Unwrap(app.fetch_rx)].rx
          /\ AfterFetchPoll.app.logs_view = app.logs_view
    /\ GroupsGot("Err") =>
          /\ AfterPoll.app.last_error = Some(Display(GroupsRecv.val.val))
          /\ ~AfterPoll.app.is_loading_groups
          /\ AfterPoll.app.groups_rx = None
          /\ ~AfterPoll.chans[Unwrap(app.groups_rx)].rx
          /\ AfterPoll.app.logs_view = AfterFetchPoll.app.logs_view

\* C8 witness: a frame polled a fetch failure; its message is shown, the flag
\* is clear and the entries of an earlier fetch are still listed
C8_Witness ==
    /\ obs.step = "frame"
    /\ obs.fetch_poll = "err"
    /\ ~app.is_fetching
    /\ app.fetch_rx = None
    /\ app.logs_view.entries # <<>>
    /\ app.last_error # None
    /\ Unwrap(app.last_error)[1] = "CloudWatch Logs request failed for log group "

\* C9: whenever a held reply channel is empty and still connected, the poll
\* step changes nothing (application state, channels, queue), and polling again
\* changes nothing either.
C9_EmptyPollIdempotent ==
    /\ (app.fetch_rx # None /\ FetchRecv.tag = "Empty") =>
          /\ AfterFetchPoll.app = app
          /\ AfterFetchPoll.chans = chans
          /\ AfterFetchPoll.queue = queue
          /\ PollFetch(AfterFetchPoll) = AfterFetchPoll
    /\ (app.groups_rx # None /\ GroupsRecv.tag = "Empty") =>
          /\ AfterPoll.app = AfterFetchPoll.app
          /\ AfterPoll.chans = AfterFetchPoll.chans
          /\ AfterPoll.queue = AfterFetchPoll.queue
          /\ PollGroups(AfterPoll) = AfterPoll

\* C9 witness: a second frame in a row polled both channels empty; both
\* handles and flags are still in place
C9_Witness ==
    /\ obs.step = "frame"
    /\ obs.fetch_poll = "empty"
    /\ obs.groups_poll = "empty"
    /\ obs.sent = <<>>
    /\ app.is_fetching /\ app.fetch_rx # None
    /\ app.is_loading_groups /\ app.groups_rx # None
    /\ FetchRecv.tag = "Empty"
    /\ GroupsRecv.tag = "Empty"

\* C10: whenever a held reply channel is disconnected with no value, the poll
\* step clears that kind's flag and drops the handle, and leaves the error
\* message, the entry list, the group list and the selection as they were.
C10_DisconnectStopsWaiting ==
    /\ (app.fetch_rx # None /\ FetchRecv.tag = "Disconnected") =>
          /\ ~AfterFetchPoll.app.is_fetching
          /\ AfterFetchPoll.app.fetch_rx = None
          /\ ~AfterFetchPoll.chans[Unwrap(app.fetch_rx)].rx
          /\ AfterFetchPoll.app.last_error = app.last_error
          /\ AfterFetchPoll.app.logs_view = app.logs_view
    /\ (app.groups_rx # None /\ GroupsRecv.tag = "Disconnected") =>
          /\ ~AfterPoll.app.is_loading_groups
          /\ AfterPoll.app.groups_rx = None
          /\ ~AfterPoll.chans[Unwrap(app.groups_rx)].rx
          /\ AfterPoll.app.last_error = AfterFetchPoll.app.last_error
          /\ AfterPoll.app.logs_view = AfterFetchPoll.app.logs_view

\* C10 witness: a frame found both reply channels disconnected; nothing is in
\* flight afterwards, no error is shown and the earlier entries are still listed
C10_Witness ==
    /\ obs.step = "frame"
    /\ obs.fetch_poll = "disconnected"
    /\ obs.groups_poll = "disconnected"
    /\ obs.sent = <<>>
    /\ ~app.is_fetching /\ app.fetch_rx = None
    /\ ~app.is_loading_groups /\ app.groups_rx = None
    /\ app.last_error = None
    /\ app.logs_view.entries # <<>>

----------------------------------------------------------------------------
(* The groups success arm on every value of its inputs.                    *)
(* In the running application the selection is absent whenever a list is   *)
(* merged (C15_OptimisticClear), so the arm's re-validation of the index   *)
(* is exercised here on the values its types admit: any list, and any      *)
(* selection valid for the list shown before.                              *)

GroupLists ==
    { <<>>, <<GroupA>>, <<GroupB>>, <<GroupA, GroupB>>, <<GroupB, GroupA>>,
      <<GroupA, GroupB, GroupA>> }

\* Option<usize> values valid for a list
SelectionsOf(groups) == {None} \cup {Some(i) : i \in 0..(Len(groups) - 1)}

\* an App waiting on groups_rx, on which Ok(new) has been sent
MergeInit ==
    \E old \in GroupLists, new \in GroupLists :
    \E sel \in SelectionsOf(old) :
        /\ app = [App_new EXCEPT
                     !.logs_view.available_groups = old,
                     !.logs_view.selected_group_index = sel,
                     !.logs_view.log_group =
                         IF sel = None THEN <<>> ELSE old[Unwrap(sel) + 1],
                     !.is_loading_groups = TRUE,
                     !.groups_rx = Some(1)]
        /\ chans = [c \in ChanIds |->
                       IF c = 1 THEN DropTx(ChanSend(NewChan, Ok(new))) ELSE ClosedChan]
        /\ queue = <<>>
        /\ worker = [pc |-> "recv", req |-> None]
        /\ now = 0
        /\ handles = Owners
        /\ time_range = TimeRangeIdle
        /\ obs = ObsIdle("env")

MergeFrame == Frame(NoInput)

MergeNext == MergeFrame

MergeSpec == MergeInit /\ [][MergeNext]_vars

\* C11: when a successful list-groups result is ready, the poll step makes
\* available_groups the list received; a selection whose index is >= the length
\* of that list becomes absent, any other selection (absent included) is kept
\* as it was, and a selection kept is a valid index of the new list. The frame
\* that merged ends with a selection that is absent or valid.
C11_SelectionRevalidated ==
    /\ GroupsGot("Ok") =>
          LET sel   == app.logs_view.selected_group_index
              new   == GroupsRecv.val.val
              after == AfterPoll.app.logs_view
          IN  /\ after.available_groups = new
              /\ (sel # None /\ Unwrap(sel) >= Len(new)) =>
                     after.selected_group_index = None
              /\ ~(sel # None /\ Unwrap(sel) >= Len(new)) =>
                     after.selected_group_index = sel
              /\ after.selected_group_index # None =>
                     Unwrap(after.selected_group_index) < Len(new)
    /\ (obs.step = "frame" /\ obs.groups_poll = "ok") =>
          \/ app.logs_view.selected_group_index = None
          \/ Unwrap(app.logs_view.selected_group_index) < Len(app.logs_view.available_groups)

\* C11 witness: the index selected equals the length of the list received (the
\* smallest index that is no longer valid) and the poll step clears it
C11_Witness ==
    /\ GroupsGot("Ok")
    /\ app.logs_view.selected_group_index = Some(2)
    /\ Len(GroupsRecv.val.val) = 2
    /\ AfterPoll.app.logs_view.selected_group_index = None
    /\ AfterPoll.app.logs_view.available_groups = GroupsRecv.val.val

----------------------------------------------------------------------------
(* C12 *)

\* the machine at the call of start_fetch_logs in draw_logs_view, in the frame
\* that starts in the current state with input `in`
BeforeEnter(in) == TopBar(TailLogic(AfterPoll, now), in)

PressEnter == [NoInput EXCEPT !.enter = TRUE]

\* C12: start_fetch_logs called with is_fetching set returns the machine as it
\* was (application state, queue, channels, what the frame sent): at the call
\* made for the Enter key in any frame, and at the poll's end; so a frame whose
\* fetch is still in flight ends the same with the Enter key as without it.
C12_SecondFetchNoOp ==
    /\ \A in \in Inputs :
          BeforeEnter(in).app.is_fetching =>
              start_fetch_logs(BeforeEnter(in), Lookback5m) = BeforeEnter(in)
    /\ AfterPoll.app.is_fetching =>
          /\ start_fetch_logs(AfterPoll, Lookback5m) = AfterPoll
          /\ Update(Machine, now, PressEnter) = Update(Machine, now, NoInput)

\* C12 witness: a fetch is in flight with its reply pending, a log group is
\* selected (a fetch attempt would pass validation) and an error message is set
\* (success would clear it); the Enter key changes nothing
C12_Witness ==
    /\ app.is_fetching
    /\ FetchRecv.tag = "Empty"
    /\ AfterPoll.app.is_fetching
    /\ app.logs_view.log_group # <<>>
    /\ app.last_error # None
    /\ FreeChans(chans) # {}
    /\ Update(Machine, now, PressEnter) = Update(Machine, now, NoInput)

----------------------------------------------------------------------------
(* C13 *)

\* the machines on which a frame starting in the current state may call
\* start_fetch_logs: at the tail timer, and at the Enter key for every input
FetchCallSites == {AfterPoll} \cup {BeforeEnter(in) : in \in Inputs}

\* start_fetch_logs on m, with no fetch in flight, did what C13 says
Validated(m) ==
    LET r    == start_fetch_logs(m, Lookback5m)
        name == Trim(m.app.logs_view.log_group)
    IN  IF name = <<>>
        THEN /\ r = [m EXCEPT !.app.last_error = Some(PleaseSelect)]
             /\ r.queue = m.queue
             /\ r.chans = m.chans
             /\ r.obs.sent = m.obs.sent
             /\ ~r.app.is_fetching
             /\ r.app.fetch_rx = None
        ELSE r.ok =>
             /\ r.app.logs_view.log_group = name
             /\ r.app.is_fetching
             /\ r.app.fetch_rx # None
             /\ r.app.last_error = None
             /\ r.obs.sent = Append(m.obs.sent, "FetchRecentLogs")
             /\ m.alive =>
                   /\ Len(r.queue) = Len(m.queue) + 1
                   /\ r.queue[Len(r.queue)].kind = "FetchRecentLogs"
                   /\ r.queue[Len(r.queue)].log_group = name
                   /\ Some(r.queue[Len(r.queue)].respond_to) = r.app.fetch_rx

\* C13: at every call of start_fetch_logs with no fetch in flight, a log group
\* that is empty after trimming gives the message "Please select a log group."
\* and nothing else (no request, no channel, flag clear, no handle); any other
\* log group is stored trimmed and sent trimmed, with the flag set and the
\* handle stored. The name held in View State is always already trimmed (it
\* comes from the trimmed list of names).
C13_EmptyGroupRejected ==
    /\ \A m \in FetchCallSites : ~m.app.is_fetching => Validated(m)
    /\ Trim(app.logs_view.log_group) = app.logs_view.log_group

\* C13 witness: a frame ended with the validation message, although groups
\* were loaded, having sent nothing and stored no handle
C13_Witness ==
    /\ obs.step = "frame"
    /\ app.last_error = Some(PleaseSelect)
    /\ obs.sent = <<>>
    /\ ~app.is_fetching
    /\ app.fetch_rx = None
    /\ app.logs_view.available_groups # <<>>
    /\ Trim(app.logs_view.log_group) = <<>>

----------------------------------------------------------------------------
(* The application with its text fields edited *)

\* a name with white space around it
Padded == <<Space, "x", Space>>

\* what the user may type over a field: the profile emptied or padded, the
\* region white space only, the filter white space only or padded
ProfileEdits == { <<>>, Padded }
RegionEdits == { <<Space>> }
FilterEdits == { <<Space>>, Padded }

\* one event of a frame: an edit of the profile, region or filter field, or a
\* click on Load groups, on the first combo-box label, on Fetch
EditInputs ==
    { NoInput,
      [NoInput EXCEPT !.load = TRUE],
      [NoInput EXCEPT !.group_click = Some(0)],
      [NoInput EXCEPT !.fetch = TRUE] }
    \cup { [NoInput EXCEPT !.profile = Some(t)] : t \in ProfileEdits }
    \cup { [NoInput EXCEPT !.region = Some(t)] : t \in RegionEdits }
    \cup { [NoInput EXCEPT !.filter = Some(t)] : t \in FilterEdits }

EditFrameStep == \E in \in EditInputs : Frame(in)

EditNext ==
    \/ EditFrameStep
    \/ WorkerRecv
    \/ FetchReturns
    \/ ListReturns

EditSpec == Init /\ [][EditNext]_vars

\* an Option<String> of a request: absent, or a text that is not blank
NotBlank(o) == o = None \/ Trim(Unwrap(o)) # <<>>

\* C14: every request queued or being served has a profile and a region that
\* are absent or not blank, and a fetch request a filter pattern that is absent
\* or not blank (what fetch_recent_logs then gives the service is absent or the
\* trimmed, non-empty pattern). A frame that sent a request built its profile
\* and region from the fields as they are after the frame: absent exactly when
\* the field is empty after trimming, the field's text otherwise.
C14_BlankSentAsAbsent ==
    /\ \A i \in 1..Len(Outstanding) :
          LET req == Outstanding[i] IN
          /\ NotBlank(req.profile)
          /\ NotBlank(req.region)
          /\ req.kind = "FetchRecentLogs" =>
                /\ NotBlank(req.filter_pattern)
                /\ filter_pattern_sent(req) # Some(<<>>)
                /\ filter_pattern_sent(req) # None =>
                      Trim(Unwrap(filter_pattern_sent(req))) = Unwrap(filter_pattern_sent(req))
    /\ (obs.step = "frame" /\ obs.sent # <<>> /\ queue # <<>>) =>
          LET req == queue[Len(queue)]
              lv  == app.logs_view
          IN  /\ req.profile = (IF Trim(lv.profile) = <<>> THEN None ELSE Some(lv.profile))
              /\ req.region = (IF Trim(lv.region) = <<>> THEN None ELSE Some(lv.region))
              /\ req.kind = "FetchRecentLogs" =>
                    req.filter_pattern =
                        (IF Trim(lv.filter_text) = <<>> THEN None ELSE Some(lv.filter_text))

\* C14 witness: a frame sent a fetch request while the profile field was empty,
\* the region field white space only and the filter field a padded pattern
C14_Witness ==
    /\ obs.step = "frame"
    /\ obs.sent = <<"FetchRecentLogs">>
    /\ queue # <<>>
    /\ app.logs_view.profile = <<>>
    /\ app.logs_view.region = <<Space>>
    /\ app.logs_view.filter_text = Padded
    /\ queue[Len(queue)].profile = None
    /\ queue[Len(queue)].region = None
    /\ queue[Len(queue)].filter_pattern = Some(Padded)
    /\ filter_pattern_sent(queue[Len(queue)]) = Some(<<"x">>)

----------------------------------------------------------------------------
(* C15 *)

ClickLoad == [NoInput EXCEPT !.load = TRUE]

\* C15: while the application holds a list-groups handle (from the frame that
\* issued the request until the frame whose poll ends the wait),
\* available_groups is empty, selected_group_index is absent and
\* is_loading_groups is set; the flag is set exactly while the handle is held;
\* and the frame that issues the request already ends in that state.
C15_OptimisticClear ==
    /\ app.groups_rx # None =>
          /\ app.logs_view.available_groups = <<>>
          /\ app.logs_view.selected_group_index = None
          /\ app.is_loading_groups
    /\ app.is_loading_groups => app.groups_rx # None
    /\ (~AfterPoll.app.is_loading_groups /\ Update(Machine, now, ClickLoad).ok) =>
          LET after == Update(Machine, now, ClickLoad).app IN
          /\ after.logs_view.available_groups = <<>>
          /\ after.logs_view.selected_group_index = None
          /\ after.is_loading_groups
          /\ after.groups_rx # None

\* C15 witness: groups are listed and one is selected, and a click on Load
\* groups empties the list and the selection in the same frame
C15_Witness ==
    /\ app.logs_view.available_groups # <<>>
    /\ app.logs_view.selected_group_index # None
    /\ ~app.is_loading_groups
    /\ Update(Machine, now, ClickLoad).ok
    /\ Update(Machine, now, ClickLoad).app.logs_view.available_groups = <<>>
    /\ Update(Machine, now, ClickLoad).app.logs_view.selected_group_index = None
    /\ Update(Machine, now, ClickLoad).app.is_loading_groups
    /\ Update(Machine, now, ClickLoad).obs.sent = <<"ListLogGroups">>

----------------------------------------------------------------------------
(* The application with tail mode, on a clock fine enough for the timer *)

\* the instants at which the clock is read: 0.9 s, 1.0 s, 4.9 s and 5.0 s after 0
TailInstants == {0, 900, 1000, 4900, 5000}

\* the clock advances to a later instant
TailTick ==
    /\ \E t \in TailInstants : t > now /\ now' = t
    /\ obs' = ObsIdle("env")
    /\ UNCHANGED <<app, queue, worker, chans, handles, time_range>>

\* what the user may drag or type into the interval control
IntervalsTyped == {0, 1000}

\* one event of a frame: a click on the Tail checkbox, on Load groups, on the
\* first combo-box label, or a value given to the interval control
TailInputs ==
    { NoInput,
      [NoInput EXCEPT !.tail = TRUE],
      [NoInput EXCEPT !.load = TRUE],
      [NoInput EXCEPT !.group_click = Some(0)] }
    \cup { [NoInput EXCEPT !.interval = Some(v)] : v \in IntervalsTyped }

TailFrameStep == \E in \in TailInputs : Frame(in)

TailNext ==
    \/ TailFrameStep
    \/ WorkerRecv
    \/ FetchReturns
    \/ ListReturns
    \/ TailTick

TailSpec == Init /\ [][TailNext]_vars

\* C16: in a frame whose poll step leaves tail mode on, no fetch in flight and
\* a last trigger t0 recorded, the tail logic at time `now` fires exactly when
\* now - t0 >= tail_interval_secs seconds. When it fires it calls
\* start_fetch_logs once and records `now`: with a log group selected exactly
\* one FetchRecentLogs request is sent, with none the call fails validation and
\* nothing is sent. When it does not fire it changes nothing. A frame without
\* input sends what its tail logic sent.
C16_TailThreshold ==
    LET m  == AfterPoll
        lv == m.app.logs_view
    IN  (lv.tail_mode /\ ~m.app.is_fetching /\ lv.last_tail_instant # None) =>
        LET t0  == Unwrap(lv.last_tail_instant)
            r   == TailLogic(m, now)
            due == (now - t0 >= lv.tail_interval_secs * 1000)
        IN  /\ r.obs.tail_fired <=> due
            /\ ~due => r = m
            /\ due =>
                  /\ r.app.logs_view.last_tail_instant = Some(now)
                  /\ (r.ok /\ Trim(lv.log_group) # <<>>) =>
                        /\ r.obs.sent = <<"FetchRecentLogs">>
                        /\ r.app.is_fetching
                        /\ Len(r.queue) = Len(m.queue) + 1
                        /\ r.queue[Len(r.queue)].lookback = Lookback5m
                  /\ Trim(lv.log_group) = <<>> =>
                        /\ r.obs.sent = <<>>
                        /\ r.queue = m.queue
                        /\ ~r.app.is_fetching
            /\ Update(m, now, NoInput).obs.sent = r.obs.sent

\* C16 witness: tail mode on with interval 5, a log group selected, no fetch in
\* flight, and the last trigger exactly 5.0 s ago: the tail logic sends one request
C16_Witness ==
    /\ app.logs_view.tail_mode
    /\ app.logs_view.tail_interval_secs = 5
    /\ app.logs_view.log_group # <<>>
    /\ ~AfterPoll.app.is_fetching
    /\ app.logs_view.last_tail_instant # None
    /\ now - Unwrap(app.logs_view.last_tail_instant) = 5000
    /\ TailLogic(AfterPoll, now).obs.sent = <<"FetchRecentLogs">>
    /\ TailLogic(AfterPoll, now).app.logs_view.last_tail_instant = Some(now)

\* the same 4.9 s after the last trigger: the tail logic sends nothing
C16_NearMiss ==
    /\ app.logs_view.tail_mode
    /\ app.logs_view.tail_interval_secs = 5
    /\ app.logs_view.log_group # <<>>
    /\ ~AfterPoll.app.is_fetching
    /\ app.logs_view.last_tail_instant # None
    /\ now - Unwrap(app.logs_view.last_tail_instant) = 4900
    /\ TailLogic(AfterPoll, now) = AfterPoll

----------------------------------------------------------------------------
(* C17 *)

\* C17 as claimed: in every frame whose poll step leaves is_fetching set, the
\* tail logic sends no request and leaves last_tail_instant as it was.
C17_TailIdleWhileFetching ==
    AfterPoll.app.is_fetching =>
        LET r == TailLogic(AfterPoll, now) IN
        /\ r.obs.sent = AfterPoll.obs.sent
        /\ r.queue = AfterPoll.queue
        /\ r.app.logs_view.last_tail_instant = AfterPoll.app.logs_view.last_tail_instant

\* C17 amended: in every frame whose poll step leaves is_fetching set, the tail
\* logic sends no request and does not fire; with tail mode on it changes
\* nothing (last_tail_instant included, however old it is), with tail mode off
\* it only resets last_tail_instant to absent, as in every frame with tail mode off.
C17_TailSendsNothingWhileFetching ==
    AfterPoll.app.is_fetching =>
        LET r == TailLogic(AfterPoll, now) IN
        /\ r.obs.sent = AfterPoll.obs.sent
        /\ r.queue = AfterPoll.queue
        /\ ~r.obs.tail_fired
        /\ AfterPoll.app.logs_view.tail_mode => r = AfterPoll
        /\ ~AfterPoll.app.logs_view.tail_mode =>
              r = [AfterPoll EXCEPT !.app.logs_view.last_tail_instant = None]

\* C17 witness: tail mode on, the fetch still in flight after the poll, and the
\* last trigger a full interval ago: the tail logic changes nothing
C17_Witness ==
    /\ app.logs_view.tail_mode
    /\ AfterPoll.app.is_fetching
    /\ app.logs_view.last_tail_instant # None
    /\ now - Unwrap(app.logs_view.last_tail_instant) >= app.logs_view.tail_interval_secs * 1000
    /\ TailLogic(AfterPoll, now) = AfterPoll

----------------------------------------------------------------------------
(* C18 *)

ClickTail == [NoInput EXCEPT !.tail = TRUE]

\* C18: every frame that starts with tail mode off ends with last_tail_instant
\* absent (also the frame in which the checkbox is ticked again); every frame
\* that starts with tail mode on and last_tail_instant absent fires the tail
\* timer at once if its poll step leaves no fetch in flight, whatever the
\* clock shows, and otherwise keeps last_tail_instant absent. So from the frame
\* after tail mode is switched off until the timer fires again the marker is
\* absent, and the first frame that sees tail mode on with no fetch in flight fires.
C18_ReenableFiresAtOnce ==
    [][ obs'.step = "frame" =>
          /\ ~app.logs_view.tail_mode => app'.logs_view.last_tail_instant = None
          /\ (app.logs_view.tail_mode /\ app.logs_view.last_tail_instant = None) =>
                IF AfterPoll.app.is_fetching
                THEN /\ ~obs'.tail_fired
                     /\ app'.logs_view.last_tail_instant = None
                ELSE /\ obs'.tail_fired
                     /\ app'.logs_view.last_tail_instant = Some(now)
                     /\ Trim(app.logs_view.log_group) # <<>> =>
                           (obs'.sent # <<>> /\ obs'.sent[1] = "FetchRecentLogs")
      ]_vars

\* C18 witness: tail mode has just been switched off, the last trigger is less
\* than an interval old and its fetch is done; the frame in which the checkbox is
\* ticked again resets the marker, and the frame after it, at the same instant,
\* fires the timer and sends a fetch request
C18_Witness ==
    /\ ~app.logs_view.tail_mode
    /\ app.logs_view.last_tail_instant # None
    /\ now - Unwrap(app.logs_view.last_tail_instant) < app.logs_view.tail_interval_secs * 1000
    /\ ~app.is_fetching
    /\ app.logs_view.log_group # <<>>
    /\ LET a == Update(Machine, now, ClickTail)
           b == Update([a EXCEPT !.obs = ObsIdle("frame")], now, NoInput)
       IN  /\ a.app.logs_view.tail_mode
           /\ a.app.logs_view.last_tail_instant = None
           /\ ~a.obs.tail_fired
           /\ b.ok
           /\ b.obs.tail_fired
           /\ b.obs.sent = <<"FetchRecentLogs">>
           /\ b.app.logs_view.last_tail_instant = Some(now)

----------------------------------------------------------------------------
(* C19 *)

\* values dragged or typed into the interval control, as i32
IntervalsProbed == {-2147483647, -1, 0, 1, 2, 5, 299, 300, 301, 1000, 2147483647}

\* C19: tail_interval_secs is between 1 and 300 in every reachable state, and
\* whatever value is dragged or typed into the interval control in the current
\* state, the frame leaves a value between 1 and 300: the value given if it is
\* in that range, the nearer end of the range if not.
C19_IntervalClamped ==
    /\ app.logs_view.tail_interval_secs >= 1
    /\ app.logs_view.tail_interval_secs <= 300
    /\ \A v \in IntervalsProbed :
          LET secs == draw_logs_view(Machine, [NoInput EXCEPT !.interval = Some(v)])
                          .app.logs_view.tail_interval_secs
          IN  /\ secs >= 1
              /\ secs <= 300
              /\ (v >= 1 /\ v <= 300) => secs = v
              /\ v < 1 => secs = 1
              /\ v > 300 => secs = 300

\* C19 witness: a frame took 1000 from the interval control and left 300
C19_Witness ==
    /\ obs.step = "frame"
    /\ app.logs_view.tail_interval_secs = 300
    /\ draw_logs_view(Machine, [NoInput EXCEPT !.interval = Some(1000)])
           .app.logs_view.tail_interval_secs = 300
    /\ draw_logs_view(Machine, [NoInput EXCEPT !.interval = Some(0)])
           .app.logs_view.tail_interval_secs = 1

----------------------------------------------------------------------------
(* list_log_groups on every limit a caller may put in WorkerRequest::ListLogGroups *)

\* i32 limits: around 0, around 50, 500, and the ends of the type
Limits == (-3..53) \cup {500, 2147483647, -2147483647}

\* the application after Load groups, the request carrying the limit l
CapInit ==
    \E l \in Limits :
        /\ app = [App_new EXCEPT !.is_loading_groups = TRUE, !.groups_rx = Some(1)]
        /\ chans = [c \in ChanIds |-> IF c = 1 THEN NewChan ELSE ClosedChan]
        /\ queue = << [ kind       |-> "ListLogGroups",
                        profile    |-> Some(TextForm),
                        region     |-> Some(TextEuWest1),
                        limit      |-> l,
                        respond_to |-> 1 ] >>
        /\ worker = [pc |-> "recv", req |-> None]
        /\ now = 0
        /\ handles = Owners
        /\ time_range = TimeRangeIdle
        /\ obs = ObsIdle("env")

CapFrame == Frame(NoInput)

CapNext ==
    \/ CapFrame
    \/ WorkerRecv
    \/ ListReturns

CapSpec == CapInit /\ [][CapNext]_vars

\* C20: for every list-groups request queued or being served, the cap that
\* list_log_groups sets on the service request is absent when limit <= 0, and
\* when limit > 0 it is present, at least 1, at most 50, at most the limit, and
\* equal to the limit or to 50 (that is, min(limit, 50)); for limit 500 it is 50.
C20_PageSizeCapped ==
    \A i \in 1..Len(Outstanding) :
        LET req == Outstanding[i] IN
        req.kind = "ListLogGroups" =>
            LET cap == describe_log_groups_limit(req.limit) IN
            /\ req.limit <= 0 => cap = None
            /\ req.limit > 0 =>
                  /\ cap # None
                  /\ Unwrap(cap) >= 1
                  /\ Unwrap(cap) <= 50
                  /\ Unwrap(cap) <= req.limit
                  /\ Unwrap(cap) = req.limit \/ Unwrap(cap) = 50
            /\ req.limit = 500 => cap = Some(50)

\* C20 witness: the worker serves a list-groups request with limit 500 and the
\* cap it sets is 50
C20_Witness ==
    /\ worker.pc = "serving"
    /\ Unwrap(worker.req).kind = "ListLogGroups"
    /\ Unwrap(worker.req).limit = 500
    /\ describe_log_groups_limit(Unwrap(worker.req).limit) = Some(50)

----------------------------------------------------------------------------
(* fetch_recent_logs: the start of the time window, on every lookback        *)

\* A SystemTime is a whole number of half-milliseconds since UNIX_EPOCH,
\* negative before it; a request's lookback is in whole seconds.
HalfMillisPerSec == 2000

\* The largest value of the i64 the start time is sent as. TLC's integers have
\* 32 bits, so i64::MAX is scaled down to this width; the wall clocks and
\* lookbacks below are chosen on both sides of it.
MaxMillis == 1000000

\* the earliest SystemTime the platform represents is -SysTimeSpan
SysTimeSpan == 4000000

\* `as i64` of a u128 that does not fit keeps the low bits
WrapI64(x) == ((x + MaxMillis + 1) % (2 * (MaxMillis + 1))) - (MaxMillis + 1)

\* SystemTime::checked_sub
checked_sub(t, d) == IF t - d < -SysTimeSpan THEN None ELSE Some(t - d)

to_millis_wrapping(t) == IF t < 0 THEN 0 ELSE WrapI64(t \div 2)

\* aws.rs to_millis: duration_since fails before the epoch; as_millis drops
\* the part of a millisecond
to_millis(t) ==
    IF t < 0
    THEN 0
    ELSE LET millis == t \div 2 IN
         IF millis < MaxMillis THEN millis ELSE MaxMillis

\* aws.rs fetch_recent_logs, the start_time it puts on the service request
start_time_millis(t, lookback) ==
    LET since == checked_sub(t, lookback * HalfMillisPerSec) IN
    to_millis(IF since = None THEN 0 ELSE Unwrap(since))

\* SystemTime::now() when the worker serves the request: before, at and after
\* the epoch, with and without half a millisecond, around every lookback and
\* around 2 * MaxMillis
WallClocks ==
    {-3, 0, 1, 2, 3, 1999, 2000, 2001, 600000, 600001, 600003,
     2000001, 2000002, 2000003, 2600001, 3000000}

\* lookbacks in seconds: none, short, the application's 300, and longer than
\* the platform's time span
Lookbacks == (0..20) \cup {299, 300, 301, 999, 1000, 1001, 2999, 3000, 3001}

\* the application after a fetch was started, the request carrying lookback l
StartInit ==
    \E l \in Lookbacks :
        /\ app = [App_new EXCEPT !.is_fetching = TRUE, !.fetch_rx = Some(1),
                                 !.logs_view.log_group = GroupA]
        /\ chans = [c \in ChanIds |-> IF c = 1 THEN NewChan ELSE ClosedChan]
        /\ queue = << [ kind           |-> "FetchRecentLogs",
                        profile        |-> Some(TextForm),
                        region         |-> Some(TextEuWest1),
                        log_group      |-> GroupA,
                        filter_pattern |-> None,
                        lookback       |-> l,
                        limit          |-> 1000,
                        respond_to     |-> 1 ] >>
        /\ worker = [pc |-> "recv", req |-> None]
        /\ now = 0
        /\ handles = Owners
        /\ time_range = TimeRangeIdle
        /\ obs = ObsIdle("env")

StartFrame == Frame(NoInput)

StartNext ==
    \/ StartFrame
    \/ WorkerRecv
    \/ FetchReturns

StartSpec == StartInit /\ [][StartNext]_vars

\* C21: for every fetch request queued or being served and every wall clock
\* T at which fetch_recent_logs may run, the start time it requests is between
\* 0 and the largest i64; when T - lookback is before the epoch it is 0; when
\* T - lookback is at or after the epoch it is at most T - lookback, and it is
\* T - lookback cut to whole milliseconds unless that exceeds the largest i64,
\* in which case it is the largest i64.
C21_StartTimeClamped ==
    \A i \in 1..Len(Outstanding) : \A t \in WallClocks :
        LET req   == Outstanding[i]
            exact == t - req.lookback * HalfMillisPerSec
            start == start_time_millis(t, req.lookback)
        IN  req.kind = "FetchRecentLogs" =>
            /\ start >= 0
            /\ start <= MaxMillis
            /\ exact < 0 => start = 0
            /\ exact >= 0 =>
                  /\ 2 * start <= exact
                  /\ start = exact \div 2 \/ (start = MaxMillis /\ exact \div 2 > MaxMillis)

\* C21 witness: the worker serves a request whose lookback reaches before the
\* epoch at one wall clock (start 0), lands half a millisecond past a whole one
\* at another (cut down), and is past the largest i64 at a third (clamped)
C21_Witness ==
    /\ worker.pc = "serving"
    /\ Unwrap(worker.req).kind = "FetchRecentLogs"
    /\ Unwrap(worker.req).lookback = 300
    /\ start_time_millis(2001, 300) = 0
    /\ start_time_millis(600003, 300) = 1
    /\ start_time_millis(2600001, 300) = MaxMillis

----------------------------------------------------------------------------
(* filtered_to_entry on every shape of event *)

\* FilteredLogEvent: each of the three fields present or absent
EventShapes ==
    [ timestamp       : {None, Event1.timestamp, Some(0), Some(-1)},
      message         : {None, Event1.message, Some(<<>>)},
      log_stream_name : {None, Event1.log_stream_name, Some(<<>>)} ]

\* the events of a FilterLogEvents answer
EventsIn(resp) == IF resp.val = None THEN <<>> ELSE Unwrap(resp.val)

\* C22: filtered_to_entry gives, for every shape of event, an entry of exactly
\* the three fields, each present field copied unchanged and each absent one
\* replaced by its default (timestamp 0, empty message, absent stream name);
\* and while the worker serves a fetch, every successful answer of the service
\* becomes an Ok reply with one entry per event, in order, each the mapping of
\* its event.
C22_MappingFieldForField ==
    /\ \A e \in EventShapes :
          LET entry == filtered_to_entry(e) IN
          /\ DOMAIN entry = {"timestamp_millis", "message", "log_stream_name"}
          /\ e.timestamp # None => entry.timestamp_millis = Unwrap(e.timestamp)
          /\ e.timestamp = None => entry.timestamp_millis = 0
          /\ e.message # None => entry.message = Unwrap(e.message)
          /\ e.message = None => entry.message = <<>>
          /\ entry.log_stream_name = e.log_stream_name
    /\ (worker.pc = "serving" /\ Unwrap(worker.req).kind = "FetchRecentLogs") =>
          \A resp \in FetchResponses :
              resp.tag = "Ok" =>
                  LET reply == fetch_recent_logs(Unwrap(worker.req), resp)
                      evs   == EventsIn(resp)
                  IN  /\ reply.tag = "Ok"
                      /\ Len(reply.val) = Len(evs)
                      /\ \A i \in 1..Len(evs) :
                            /\ evs[i] \in EventShapes
                            /\ reply.val[i] = filtered_to_entry(evs[i])

\* C22 witness: the reply waiting on the fetch handle holds the entry of an
\* event with all fields present followed by the entry of an event with none
C22_Witness ==
    /\ app.fetch_rx # None
    /\ chans[Unwrap(app.fetch_rx)].buf =
          << Ok(<< [ timestamp_millis |-> 1700000123,
                     message          |-> <<"h", "i">>,
                     log_stream_name  |-> Some(<<"s">>) ],
                   [ timestamp_millis |-> 0,
                     message          |-> <<>>,
                     log_stream_name  |-> None ] >>) >>

----------------------------------------------------------------------------
(* Failed service calls *)

\* the newest value written to a channel
LastOf(buf) == buf[Len(buf)]

\* the step by which the worker answers the request it serves with a failure
\* and is back at the head of its loop, the queue untouched
ReturnsFailure ==
    LET c == Unwrap(worker.req).respond_to IN
    /\ FetchReturns \/ ListReturns
    /\ Len(chans'[c].buf) = Len(chans[c].buf) + 1
    /\ chans'[c].buf = Append(chans[c].buf, LastOf(chans'[c].buf))
    /\ LastOf(chans'[c].buf).tag = "Err"
    /\ ~chans'[c].tx
    /\ worker' = [pc |-> "recv", req |-> None]
    /\ queue' = queue

\* a failure has been written to some reply channel and waits to be polled
FailedReplyWaiting ==
    \E c \in ChanIds : chans[c].buf # <<>> /\ Head(chans[c].buf).tag = "Err"

\* the reply of the request that owns channel c has been written
Answered(c) == ~chans[c].tx /\ chans[c].buf # <<>>

\* C23: under FairSpec, (1) whenever the worker serves a request whose reply
\* receiver is alive, the service call can fail, and that step writes an Err as
\* the one reply on that request's channel, drops the sender, leaves the queue
\* as it is and puts the worker back at the head of its loop; (2) every step
\* that writes a reply leaves a live worker at the head of its loop; (3) a
\* request that is queued while a failure reply is waiting is later answered on
\* its own channel, unless the worker thread panics first.
C23_FailureIsAReply ==
    /\ [](worker.pc = "serving" /\ chans[Unwrap(worker.req).respond_to].rx
             => ENABLED ReturnsFailure)
    /\ [][ (\E c \in ChanIds : Len(chans'[c].buf) > Len(chans[c].buf)) =>
               /\ worker.pc = "serving"
               /\ worker'.pc = "recv"
               /\ queue' = queue ]_vars
    /\ \A c \in ChanIds :
          (FailedReplyWaiting /\ c \in SendersIn(queue))
              ~> (Answered(c) \/ worker.pc = "dead")

\* C23 witness: a failed list-groups call has been answered with an Err that the
\* application has not polled yet, and the fetch queued behind it is now served
C23_Witness ==
    /\ app.groups_rx # None
    /\ chans[Unwrap(app.groups_rx)].buf # <<>>
    /\ Head(chans[Unwrap(app.groups_rx)].buf).tag = "Err"
    /\ worker.pc = "serving"
    /\ Unwrap(worker.req).kind = "FetchRecentLogs"
    /\ Some(Unwrap(worker.req).respond_to) = app.fetch_rx

----------------------------------------------------------------------------
(* Shutdown: the App and the WorkerHandles are dropped *)

\* The window is closed: eframe drops the App, and with it the App's
\* WorkerHandle and the two reply receivers it may hold.
AppDropped ==
    /\ "app" \in handles
    /\ handles' = handles \ {"app"}
    /\ chans' = [c \in ChanIds |->
                    IF Some(c) \in {app.fetch_rx, app.groups_rx}
                    THEN DropRx(chans[c]) ELSE chans[c]]
    /\ obs' = ObsIdle("env")
    /\ UNCHANGED <<app, queue, worker, now, time_range>>

\* run_native has returned and main ends: its WorkerHandle is dropped
MainReturns ==
    /\ handles = {"main"}
    /\ handles' = {}
    /\ obs' = ObsIdle("env")
    /\ UNCHANGED <<app, queue, worker, chans, now, time_range>>

\* a loop that ends as soon as the queue is empty
WorkerExitWhenIdle ==
    /\ worker.pc = "recv"
    /\ queue = <<>>
    /\ worker' = [pc |-> "done", req |-> None]
    /\ obs' = ObsIdle("env")
    /\ UNCHANGED <<app, queue, chans, now, handles, time_range>>

\* `while let Ok(req) = rx.recv()` ends: recv fails once the queue is empty and
\* every sender is gone; worker_loop, block_on and the thread's closure return
WorkerExit ==
    /\ worker.pc = "recv"
    /\ queue = <<>>
    /\ handles = {}
    /\ worker' = [pc |-> "done", req |-> None]
    /\ obs' = ObsIdle("env")
    /\ UNCHANGED <<app, queue, chans, now, handles, time_range>>

ShutNext ==
    \/ LiveFrameStep
    \/ WorkerRecv
    \/ FetchReturns
    \/ ListReturns
    \/ AppDropped
    \/ MainReturns
    \/ WorkerExit

\* The worker thread keeps running and every service call returns. Nothing
\* obliges the user to close the window.
ShutSpec ==
    /\ Init
    /\ [][ShutNext]_vars
    /\ WF_vars(WorkerRecv)
    /\ WF_vars(FetchReturns)
    /\ WF_vars(ListReturns)
    /\ WF_vars(WorkerExit)

\* the reply receiver of request req is gone
Abandoned(req) == ~chans[req.respond_to].rx

C25_QueuedAtClose ==
    /\ handles = {}
    /\ Len(queue) = 2
    /\ worker.pc = "recv"

----------------------------------------------------------------------------
(* Reply channels are used once *)

\* the outstanding requests that own the sender of channel c
OwnersOf(c) == {i \in 1..Len(Outstanding) : Outstanding[i].respond_to = c}

\* the results the service functions can produce for request req
RepliesFor(req) ==
    IF req.kind = "FetchRecentLogs"
    THEN {fetch_recent_logs(req, resp) : resp \in FetchResponses}
    ELSE {list_log_groups(req.region, resp) : resp \in GroupResponses}

\* C26 as claimed: a reply channel whose sender is gone while the application
\* still holds its receiver has been written exactly once.
C26_WrittenExactlyOnce ==
    \A c \in ChanIds :
        /\ Len(chans[c].buf) <= 1
        /\ (chans[c].rx /\ ~chans[c].tx) => Len(chans[c].buf) = 1

\* C26 amended: (1) a reply channel never holds more than one value, its sender
\* is owned by exactly one outstanding request while it lives and by none
\* afterwards, and a poll that receives a value drops the handle and the
\* receiver, so nothing is read from the channel again; (2) a step that creates
\* a channel leaves it empty and owned by exactly one request; (3) a value is
\* written to a channel only by the worker, for the request it is serving, on
\* that request's own channel, which is the handle the application holds for
\* that kind of request; it is a result of that request, the first and only
\* value of the channel, and the sender is dropped with it; (4) when the worker
\* completes a request whose receiver is alive it writes exactly one value. (A
\* channel is written zero times when the worker dies or the request is
\* dropped before the reply.)
C26_OneShot ==
    /\ [](\A c \in ChanIds :
             /\ Len(chans[c].buf) <= 1
             /\ Cardinality(OwnersOf(c)) = (IF chans[c].tx THEN 1 ELSE 0))
    /\ []((app.fetch_rx # None /\ FetchRecv.tag = "Value") =>
             /\ AfterFetchPoll.app.fetch_rx = None
             /\ AfterFetchPoll.chans[Unwrap(app.fetch_rx)] = ClosedChan)
    /\ []((app.groups_rx # None /\ GroupsRecv.tag = "Value") =>
             /\ AfterPoll.app.groups_rx = None
             /\ AfterPoll.chans[Unwrap(app.groups_rx)] = ClosedChan)
    /\ [][ \A c \in ChanIds :
              /\ (chans'[c].tx /\ ~chans[c].tx) =>
                    /\ chans'[c] = NewChan
                    /\ Cardinality(OwnersOf(c)') = 1
              /\ Len(chans'[c].buf) > Len(chans[c].buf) =>
                    /\ worker.pc = "serving"
                    /\ Unwrap(worker.req).respond_to = c
                    /\ HandleOf(Unwrap(worker.req).kind) = Some(c)
                    /\ chans[c].buf = <<>>
                    /\ Len(chans'[c].buf) = 1
                    /\ chans'[c].buf[1] \in RepliesFor(Unwrap(worker.req))
                    /\ ~chans'[c].tx
              /\ ( /\ worker.pc = "serving" /\ worker'.pc = "recv"
                   /\ Unwrap(worker.req).respond_to = c /\ chans[c].rx ) =>
                    Len(chans'[c].buf) = 1 ]_vars

\* C26 witness: the reply of the list-groups request is written, its sender
\* dropped, and waits unread on the groups handle, while the worker serves the
\* fetch, whose own channel is still empty
C26_Witness ==
    /\ app.groups_rx # None
    /\ Len(chans[Unwrap(app.groups_rx)].buf) = 1
    /\ ~chans[Unwrap(app.groups_rx)].tx
    /\ worker.pc = "serving"
    /\ Unwrap(worker.req).kind = "FetchRecentLogs"
    /\ app.fetch_rx = Some(Unwrap(worker.req).respond_to)
    /\ chans[Unwrap(worker.req).respond_to] = NewChan

----------------------------------------------------------------------------
(* The two polls, in either order *)

\* "Poll fetch results" then "Poll group list results", as every frame runs them
PollBoth(m) == PollGroups(PollFetch(m))

\* the worker has answered request req with reply
Delivered(m, req, reply) == [m EXCEPT !.chans = Respond(m.chans, req.respond_to, reply)]

\* a list-groups request is served or queued first and a fetch is queued behind it
ListThenFetchOutstanding ==
    /\ Len(Outstanding) = 2
    /\ Outstanding[1].kind = "ListLogGroups"
    /\ Outstanding[2].kind = "FetchRecentLogs"

\* Both replies are written before the next frame: that frame polls the fetch
\* result first, then the groups result.
FetchPolledFirst(rl, rf) ==
    PollBoth(Delivered(Delivered(Machine, Outstanding[1], rl), Outstanding[2], rf))

\* A frame runs between the two replies: it polls the groups result (the fetch
\* is still pending), and a later frame polls the fetch result.
GroupsPolledFirst(rl, rf) ==
    PollBoth(Delivered(PollBoth(Delivered(Machine, Outstanding[1], rl)), Outstanding[2], rf))

\* C27 as claimed: with a list-groups and a fetch request outstanding, for every
\* pair of outcomes the application state after both results are polled is the
\* same whichever result is polled first.
C27_OrderUnimportant ==
    ListThenFetchOutstanding =>
        \A rl \in RepliesFor(Outstanding[1]), rf \in RepliesFor(Outstanding[2]) :
            FetchPolledFirst(rl, rf).app = GroupsPolledFirst(rl, rf).app

\* C27 amended: with a list-groups and a fetch request outstanding, for every
\* pair of outcomes the application state after both results are polled
\* (entries, groups, selection, flags, handles and every other field) is the
\* same whichever result is polled first, except for the error message when
\* both fail: it is then the message of the failure polled last. When at least
\* one succeeds the error message is the same too.
C27_OrderOnlyDecidesMessage ==
    ListThenFetchOutstanding =>
        \A rl \in RepliesFor(Outstanding[1]), rf \in RepliesFor(Outstanding[2]) :
            LET a == FetchPolledFirst(rl, rf).app
                b == GroupsPolledFirst(rl, rf).app
            IN  /\ [a EXCEPT !.last_error = None] = [b EXCEPT !.last_error = None]
                /\ ~a.is_fetching /\ ~a.is_loading_groups
                /\ a.fetch_rx = None /\ a.groups_rx = None
                /\ (rl.tag = "Ok" \/ rf.tag = "Ok") => a = b
                /\ (rl.tag = "Err" /\ rf.tag = "Err") =>
                      /\ a.last_error = Some(Display(rl.val))
                      /\ b.last_error = Some(Display(rf.val))

\* C27 witness: the worker serves a list-groups request with a fetch queued
\* behind it, entries of an earlier fetch are listed, and when both fail the
\* two polling orders end with different messages
C27_Witness ==
    /\ ListThenFetchOutstanding
    /\ worker.pc = "serving"
    /\ app.logs_view.entries # <<>>
    /\ \E rl \in RepliesFor(Outstanding[1]), rf \in RepliesFor(Outstanding[2]) :
          /\ rl.tag = "Err" /\ rf.tag = "Err"
          /\ FetchPolledFirst(rl, rf).app.last_error
                # GroupsPolledFirst(rl, rf).app.last_error
          /\ FetchPolledFirst(rl, rf).app.logs_view
                = GroupsPolledFirst(rl, rf).app.logs_view

----------------------------------------------------------------------------
(* The state App::new constructs *)

\* the kinds of the requests a frame sent
KindsSent(o) == {o.sent[i] : i \in 1..Len(o.sent)}

\* C28: in the initial state both in-flight flags are clear, both reply handles
\* are absent, no error is set, tail mode is off with no last-triggered marker,
\* the tail interval is 5 seconds, the entries, the groups and the log group
\* are empty, the selection is absent, the profile is "form" and the region is
\* "eu-west-1"; no request is queued and no reply channel exists. From then on
\* an in-flight flag is raised only by a frame that sends a request of its kind.
C28_NothingInFlightAtStart ==
    /\ ~app.is_fetching
    /\ ~app.is_loading_groups
    /\ app.fetch_rx = None
    /\ app.groups_rx = None
    /\ app.last_error = None
    /\ ~app.logs_view.tail_mode
    /\ app.logs_view.last_tail_instant = None
    /\ app.logs_view.tail_interval_secs = 5
    /\ app.logs_view.entries = <<>>
    /\ app.logs_view.available_groups = <<>>
    /\ app.logs_view.selected_group_index = None
    /\ app.logs_view.log_group = <<>>
    /\ app.logs_view.filter_text = <<>>
    /\ ~app.logs_view.show_local_time
    /\ app.logs_view.profile = <<"f", "o", "r", "m">>
    /\ app.logs_view.region = <<"e", "u", "-", "w", "e", "s", "t", "-", "1">>
    /\ queue = <<>>
    /\ worker.pc = "recv"
    /\ \A c \in ChanIds : ~chans[c].tx /\ ~chans[c].rx /\ chans[c].buf = <<>>
    /\ [][ /\ (app'.is_fetching /\ ~app.is_fetching) =>
                 (obs'.step = "frame" /\ "FetchRecentLogs" \in KindsSent(obs'))
           /\ (app'.is_loading_groups /\ ~app.is_loading_groups) =>
                 (obs'.step = "frame" /\ "ListLogGroups" \in KindsSent(obs')) ]_vars

\* C28 witness: the first frame has run without input on the state App::new
\* constructed: it polled nothing, sent nothing and changed nothing
C28_Witness ==
    /\ obs.step = "frame"
    /\ obs.fetch_poll = "none"
    /\ obs.groups_poll = "none"
    /\ obs.sent = <<>>
    /\ app = App_new
    /\ app.logs_view.tail_interval_secs = 5
    /\ queue = <<>>
    /\ now = 0

----------------------------------------------------------------------------
(* format_timestamp_millis on every kind of timestamp *)

\* An i64 of milliseconds since the epoch is wider than the integers of the
\* model checker, so here a timestamp is [days, millis]: whole days since the
\* epoch (negative before it) and the milliseconds into that day.
MillisPerDay == 86400000

\* the same timestamp from a number of milliseconds that the checker can hold
WideMillis(n) == [days |-> n \div MillisPerDay, millis |-> n % MillisPerDay]

\* ts_millis <= 0
NonPositive(ts) == ts.days < 0 \/ (ts.days = 0 /\ ts.millis = 0)

\* chrono's last day, 262142-12-31, in days since the epoch: timestamp_opt
\* gives LocalResult::Single up to it and LocalResult::None beyond
MaxChronoDays == 95026236

\* the offsets from UTC the Local time zone may have, in seconds
LocalOffsets == {-43200, -18000, 0, 3600, 19800, 50400}

DecimalDigits == <<"0", "1", "2", "3", "4", "5", "6", "7", "8", "9">>

RECURSIVE DecimalOf(_)
DecimalOf(n) ==
    IF n < 10 THEN <<DecimalDigits[n + 1]>>
    ELSE Append(DecimalOf(n \div 10), DecimalDigits[(n % 10) + 1])

RECURSIVE ZeroPad(_, _)
ZeroPad(s, width) == IF Len(s) >= width THEN s ELSE ZeroPad(<<"0">> \o s, width)

\* %Y: four digits, and a sign in front of a year beyond 9999
FormatYear(y) == IF y > 9999 THEN <<"+">> \o DecimalOf(y) ELSE ZeroPad(DecimalOf(y), 4)

\* the proleptic Gregorian date of a day number (days since 1970-01-01)
CivilFromDays(days) ==
    LET z   == days + 719468
        era == z \div 146097
        doe == z - era * 146097
        yoe == (doe - doe \div 1460 + doe \div 36524 - doe \div 146096) \div 365
        doy == doe - (365 * yoe + yoe \div 4 - yoe \div 100)
        mp  == (5 * doy + 2) \div 153
        d   == doy - (153 * mp + 2) \div 5 + 1
        m   == IF mp < 10 THEN mp + 3 ELSE mp - 9
    IN  [year |-> yoe + era * 400 + (IF m <= 2 THEN 1 ELSE 0), month |-> m, day |-> d]

\* dt.format("%Y-%m-%d %H:%M:%S%.3f") of the date-time `secs` seconds into day
\* `days`, with `nanos` nanoseconds
FormatDateTime(days, secs, nanos) ==
    LET date == CivilFromDays(days) IN
    FormatYear(date.year) \o <<"-">> \o ZeroPad(DecimalOf(date.month), 2)
        \o <<"-">> \o ZeroPad(DecimalOf(date.day), 2) \o <<" ">>
        \o ZeroPad(DecimalOf(secs \div 3600), 2) \o <<":">>
        \o ZeroPad(DecimalOf((secs % 3600) \div 60), 2) \o <<":">>
        \o ZeroPad(DecimalOf(secs % 60), 2) \o <<".">>
        \o ZeroPad(DecimalOf(nanos \div 1000000), 3)

\* a formatter that takes only negative timestamps as missing
format_timestamp_millis_zero_rendered(ts, use_local, offset) ==
    IF ts.days < 0 THEN <<"-">>
    ELSE IF ts.days > MaxChronoDays THEN <<"-">>
    ELSE FormatDateTime(ts.days, ts.millis \div 1000, (ts.millis % 1000) * 1000000)
            \o (IF use_local THEN <<>> ELSE <<"Z">>)

\* state.rs format_timestamp_millis; offset is the Local zone's offset from UTC
format_timestamp_millis(ts, use_local, offset) ==
    IF NonPositive(ts) THEN <<"-">>
    ELSE
    LET secs  == ts.millis \div 1000
        nanos == (ts.millis % 1000) * 1000000
    IN  IF ts.days > MaxChronoDays THEN <<"-">>
        ELSE IF use_local
        THEN LET local == secs + offset + 86400 IN
             FormatDateTime(ts.days - 1 + local \div 86400, local % 86400, nanos)
        ELSE FormatDateTime(ts.days, secs, nanos) \o <<"Z">>

\* timestamps of log entries: before, at and after the epoch, around month,
\* leap-day, year and five-digit-year boundaries, and beyond chrono's range
TimestampDays ==
    {-1, 0, 1, 58, 59, 364, 365, 11015, 11016, 19675, 19722, 2932896, 2932897,
     95000000, 200000000}

TimestampMillis == {0, 1, 999, 43200123, 80000123, 86399999}

Timestamps == [days : TimestampDays, millis : TimestampMillis]

\* the application showing one entry with timestamp ts
FormatInit ==
    \E ts \in Timestamps :
        /\ app = [App_new EXCEPT !.logs_view.entries =
                      << [ timestamp_millis |-> ts,
                           message          |-> <<"h", "i">>,
                           log_stream_name  |-> None ] >>]
        /\ queue = <<>>
        /\ worker = [pc |-> "recv", req |-> None]
        /\ chans = [c \in ChanIds |-> ClosedChan]
        /\ now = 0
        /\ handles = Owners
        /\ time_range = TimeRangeIdle
        /\ obs = ObsIdle("env")

\* a frame drawing the entries, with or without a click on the local-time box
FormatFrame == \E in \in {NoInput, [NoInput EXCEPT !.local_time = TRUE]} : Frame(in)

FormatNext == FormatFrame

FormatSpec == FormatInit /\ [][FormatNext]_vars

\* the last character of a text
LastChar(s) == s[Len(s)]

\* C29: for every entry shown and every offset of the local zone,
\* format_timestamp_millis gives "-" in UTC and in local mode when the timestamp
\* is <= 0; when it is positive and within chrono's range the UTC text ends
\* with 'Z', the local text does not and ends with a digit, both are at least
\* as long as a date-time with milliseconds, and with offset 0 the local text
\* is the UTC text without its 'Z'; the text drawn in the current mode is one
\* of the two.
C29_PlaceholderAndSuffix ==
    \A i \in 1..Len(app.logs_view.entries) : \A offset \in LocalOffsets :
        LET ts    == app.logs_view.entries[i].timestamp_millis
            utc   == format_timestamp_millis(ts, FALSE, offset)
            local == format_timestamp_millis(ts, TRUE, offset)
            shown == format_timestamp_millis(ts, app.logs_view.show_local_time, offset)
        IN  /\ NonPositive(ts) => utc = <<"-">> /\ local = <<"-">>
            /\ (~NonPositive(ts) /\ ts.days <= MaxChronoDays) =>
                  /\ LastChar(utc) = "Z"
                  /\ LastChar(local) # "Z"
                  /\ LastChar(local) \in {DecimalDigits[k] : k \in 1..10}
                  /\ Len(utc) >= 24
                  /\ Len(local) >= 23
                  /\ offset = 0 => utc = local \o <<"Z">>
            /\ shown = (IF app.logs_view.show_local_time THEN local ELSE utc)

\* C29 witness: a frame switched to local time for an entry stamped
\* 1_700_000_000_123 ms; its UTC text is 2023-11-14 22:13:20.123Z and its local
\* text one hour east of UTC is 2023-11-14 23:13:20.123
C29_Witness ==
    /\ obs.step = "frame"
    /\ app.logs_view.show_local_time
    /\ app.logs_view.entries[1].timestamp_millis = [days |-> 19675, millis |-> 80000123]
    /\ format_timestamp_millis(app.logs_view.entries[1].timestamp_millis, FALSE, 3600)
          = << "2", "0", "2", "3", "-", "1", "1", "-", "1", "4", " ",
               "2", "2", ":", "1", "3", ":", "2", "0", ".", "1", "2", "3", "Z" >>
    /\ format_timestamp_millis(app.logs_view.entries[1].timestamp_millis, TRUE, 3600)
          = << "2", "0", "2", "3", "-", "1", "1", "-", "1", "4", " ",
               "2", "3", ":", "1", "3", ":", "2", "0", ".", "1", "2", "3" >>

\* an entry stamped 0 draws as "-" in both modes
C29_ZeroIsPlaceholder ==
    /\ app.logs_view.entries # <<>>
    /\ app.logs_view.entries[1].timestamp_millis = WideMillis(0)
    /\ format_timestamp_millis(WideMillis(0), TRUE, 3600) = <<"-">>
    /\ format_timestamp_millis(WideMillis(0), FALSE, 3600) = <<"-">>

----------------------------------------------------------------------------
(* The fixed parameters of the requests *)

\* request req carries the parameters the application always asks with
FixedParameters(req) ==
    IF req.kind = "FetchRecentLogs"
    THEN req.lookback = 300 /\ req.limit = 1000
    ELSE req.limit = 50

\* C30: every request queued or being served carries the fixed parameters
\* (a fetch: lookback 300 seconds and limit 1000; a list-groups: limit 50), and
\* so does every request in the queue after the frame that starts in the
\* current state, whatever its input (a click on Fetch, Enter in the filter
\* box, the tail timer, a click on Load groups).
C30_FixedRequestParameters ==
    /\ \A i \in 1..Len(Outstanding) : FixedParameters(Outstanding[i])
    /\ \A in \in Inputs :
          LET q == Update(Machine, now, in).queue IN
          \A i \in 1..Len(q) : FixedParameters(q[i])

\* C30 witness: the tail timer fired in a frame and its fetch request is the
\* newest in the queue, with lookback 300 and limit 1000, while a list-groups
\* request with limit 50 is outstanding; from here Enter and the Fetch button
\* are no-ops and the queue keeps the same requests
C30_Witness ==
    /\ obs.step = "frame"
    /\ obs.tail_fired
    /\ obs.sent = <<"FetchRecentLogs">>
    /\ queue # <<>>
    /\ queue[Len(queue)].kind = "FetchRecentLogs"
    /\ queue[Len(queue)].lookback = 300
    /\ queue[Len(queue)].limit = 1000
    /\ \E i \in 1..Len(Outstanding) :
          Outstanding[i].kind = "ListLogGroups" /\ Outstanding[i].limit = 50

\* a click on the Fetch button, with the tail off, put a fetch request with the
\* same parameters on the queue
C30_ByButtonOrEnter ==
    /\ obs.step = "frame"
    /\ ~obs.tail_fired
    /\ ~app.logs_view.tail_mode
    /\ obs.sent = <<"FetchRecentLogs">>
    /\ queue[Len(queue)].lookback = 300
    /\ queue[Len(queue)].limit = 1000

----------------------------------------------------------------------------
(* The status line *)

TextEuNorth1 == <<"e", "u", "-", "n", "o", "r", "t", "h", "-", "1">>

\* what the user may type over the region field: a region, the same with an
\* accented letter after it, nothing
StatusRegionEdits == { TextEuNorth1, TextEuNorth1 \o <<EAcute>>, <<>> }

\* the info message the status bar reads
Infos == { None, Some(<<"Copied to clipboard">>) }

StatusInputs ==
    { NoInput,
      [NoInput EXCEPT !.load = TRUE],
      [NoInput EXCEPT !.group_click = Some(0)],
      [NoInput EXCEPT !.fetch = TRUE] }
    \cup { [NoInput EXCEPT !.region = Some(t)] : t \in StatusRegionEdits }

StatusFrameStep == \E in \in StatusInputs : Frame(in)

StatusNext ==
    \/ StatusFrameStep
    \/ WorkerRecv
    \/ FetchReturns
    \/ ListReturns

StatusSpec == Init /\ [][StatusNext]_vars

\* p is the beginning of s
IsPrefix(p, s) == Len(p) <= Len(s) /\ SubSeq(s, 1, Len(p)) = p

\* the status line s of the App a with the info message info follows the
\* priority: fetching, loading, error, info, Ready
FollowsPriority(s, a, info) ==
    /\ a.is_fetching => (s.text = <<"Fetching logs", Ellipsis>> /\ ~s.is_error)
    /\ (~a.is_fetching /\ a.is_loading_groups) =>
          (s.text = <<"Loading log groups", Ellipsis>> /\ ~s.is_error)
    /\ (~a.is_fetching /\ ~a.is_loading_groups /\ a.last_error # None) =>
          LET err  == MessageChars(Unwrap(a.last_error))
              full == <<"Error: ">> \o err
          IN  /\ s.is_error
              /\ IF str_len(err) > StatusErrMax
                 THEN /\ s.text # <<>>
                      /\ s.text[Len(s.text)] = Ellipsis
                      /\ Len(s.text) <= Len(full)
                      /\ IsPrefix(SubSeq(s.text, 1, Len(s.text) - 1), full)
                 ELSE s.text = full
    /\ (~a.is_fetching /\ ~a.is_loading_groups /\ a.last_error = None /\ info # None) =>
          (s.text = Unwrap(info) /\ ~s.is_error)
    /\ (~a.is_fetching /\ ~a.is_loading_groups /\ a.last_error = None /\ info = None) =>
          (s.text = <<"Ready">> /\ ~s.is_error)
    /\ s.is_error => (~a.is_fetching /\ ~a.is_loading_groups)

\* C31: in every state the status line is computed, and it follows the fixed
\* priority: "Fetching logs..." while a fetch is in flight, else "Loading log
\* groups..." while a list request is in flight, else the last error, marked as
\* an error and cut with an ellipsis when it is longer than the fixed length,
\* else the info message, else "Ready"; an error is shown only when neither
\* request is in flight.
C31_StatusPriority ==
    \A info \in Infos :
        LET s == compute_status(WithInfo(app, info)) IN
        /\ s.tag = "Ok"
        /\ FollowsPriority(s, app, info)

\* a frame has left an error of more than StatusErrMax bytes whose byte
\* StatusErrKeep lies inside a character, and drawing the status bar has panicked
C31_Witness ==
    /\ obs.step = "panic"
    /\ ~app.is_fetching
    /\ ~app.is_loading_groups
    /\ app.last_error # None
    /\ str_len(MessageChars(Unwrap(app.last_error))) > StatusErrMax
    /\ ~is_char_boundary(MessageChars(Unwrap(app.last_error)), StatusErrKeep)
    /\ handles = {}

\* wherever the status line is computed it follows the priority
C31_PriorityWhereComputed ==
    \A info \in Infos :
        LET s == compute_status(WithInfo(app, info)) IN
        s.tag = "Ok" => FollowsPriority(s, app, info)

\* every branch of the status line is shown: a cut error of a fetch, an error
\* of a list request cut at the end of the region, the short validation error
C31_CutErrorShown ==
    /\ ~app.is_fetching
    /\ ~app.is_loading_groups
    /\ app.last_error # None
    /\ Unwrap(app.last_error)[1] = "CloudWatch Logs request failed for log group "
    /\ compute_status(WithInfo(app, None)).tag = "Ok"
    /\ Len(compute_status(WithInfo(app, None)).text) = 1 + 52 + 1

----------------------------------------------------------------------------
(* Flags and reply handles *)

\* C32: in every state a frame leaves, is_fetching is set exactly when fetch_rx
\* holds a receiver, and is_loading_groups is set exactly when groups_rx holds
\* one.
C32_FlagsMatchHandles ==
    /\ app.is_fetching <=> (app.fetch_rx # None)
    /\ app.is_loading_groups <=> (app.groups_rx # None)

\* a frame has found the list reply channel disconnected and cleared flag and
\* handle together, while a fetch is still waiting with both set
C32_Witness ==
    /\ obs.step = "frame"
    /\ obs.groups_poll = "disconnected"
    /\ ~app.is_loading_groups
    /\ app.groups_rx = None
    /\ app.is_fetching
    /\ app.fetch_rx # None

----------------------------------------------------------------------------
(* The selection index *)

\* C33: in every reachable state selected_group_index is absent or less than
\* the length of available_groups.
C33_SelectionInRange ==
    \/ app.logs_view.selected_group_index = None
    \/ Unwrap(app.logs_view.selected_group_index) < Len(app.logs_view.available_groups)

\* the last label of a list of two has been clicked: the selection is the
\* largest valid index
C33_Witness ==
    /\ obs.step = "frame"
    /\ Len(app.logs_view.available_groups) = 2
    /\ app.logs_view.selected_group_index = Some(1)
    /\ app.logs_view.log_group = app.logs_view.available_groups[2]

\* a list request is waiting after a label had been selected: the list is empty
\* and the selection absent
C33_ClearedWithList ==
    /\ app.is_loading_groups
    /\ app.logs_view.available_groups = <<>>
    /\ app.logs_view.selected_group_index = None
    /\ app.logs_view.log_group # <<>>

----------------------------------------------------------------------------
(* Requests sent after the worker has ended *)

\* the request of kind k was sent by the frame that led here
SentNow(k) == obs.step = "frame" /\ \E i \in 1..Len(obs.sent) : obs.sent[i] = k

\* no message about the worker: the error message is absent, or it is the
\* validation message of a fetch without a log group attempted in the same frame
NoWorkerError(a) == a.last_error = None \/ a.last_error = Some(PleaseSelect)

\* C34: when a frame has issued a request after the worker thread ended, the
\* request is in no queue and its reply sender is gone with nothing buffered;
\* flag and handle are set and the frame has left no error message about the
\* worker; the poll of the next frame finds the handle disconnected, clears
\* flag and handle and leaves the error message as it was.
C34_NotStuckAfterWorkerEnd ==
    /\ (SentNow("FetchRecentLogs") /\ worker.pc = "dead") =>
          /\ queue = <<>>
          /\ app.is_fetching
          /\ app.fetch_rx # None
          /\ ~chans[Unwrap(app.fetch_rx)].tx
          /\ chans[Unwrap(app.fetch_rx)].buf = <<>>
          /\ app.last_error = None
          /\ LET p == PollFetch(Machine) IN
             /\ p.obs.fetch_poll = "disconnected"
             /\ ~p.app.is_fetching
             /\ p.app.fetch_rx = None
             /\ p.app.last_error = None
    /\ (SentNow("ListLogGroups") /\ worker.pc = "dead") =>
          /\ queue = <<>>
          /\ app.is_loading_groups
          /\ app.groups_rx # None
          /\ ~chans[Unwrap(app.groups_rx)].tx
          /\ chans[Unwrap(app.groups_rx)].buf = <<>>
          /\ NoWorkerError(app)
          /\ LET p == PollGroups(PollFetch(Machine)) IN
             /\ p.obs.groups_poll = "disconnected"
             /\ ~p.app.is_loading_groups
             /\ p.app.groups_rx = None
             /\ p.app.last_error = app.last_error

\* the worker has ended, a frame has then issued a fetch, and the poll of the
\* next frame clears the flag
C34_Witness ==
    /\ worker.pc = "dead"
    /\ SentNow("FetchRecentLogs")
    /\ app.is_fetching
    /\ ~PollFetch(Machine).app.is_fetching
    /\ PollFetch(Machine).obs.fetch_poll = "disconnected"

\* the same for a list request
C34_ListAfterWorkerEnd ==
    /\ worker.pc = "dead"
    /\ SentNow("ListLogGroups")
    /\ app.is_loading_groups
    /\ ~PollGroups(PollFetch(Machine)).app.is_loading_groups

----------------------------------------------------------------------------
(* The tail timer without a log group *)

\* the tail timer of this frame fires: tail mode on, no fetch in flight after
\* the polls, and no trigger recorded or the interval elapsed
TailDue ==
    LET m  == AfterPoll
        lv == m.app.logs_view
    IN  /\ lv.tail_mode
        /\ ~m.app.is_fetching
        /\ \/ lv.last_tail_instant = None
           \/ AsSecs(now - Unwrap(lv.last_tail_instant)) >= lv.tail_interval_secs

\* C35: when the tail timer fires while the log group is empty after trimming,
\* the tail logic sends nothing, queues nothing, creates no channel and leaves
\* the flag and the handle clear; it sets the validation error and records the
\* trigger time, so that the tail logic of any later instant less than the
\* interval away changes nothing. No fetch request for an empty log group is
\* ever in the queue.
C35_TailWithoutGroup ==
    /\ (TailDue /\ Trim(AfterPoll.app.logs_view.log_group) = <<>>) =>
          LET m == AfterPoll
              r == TailLogic(m, now)
          IN  /\ r.obs.tail_fired
              /\ r.obs.sent = m.obs.sent
              /\ r.queue = m.queue
              /\ r.chans = m.chans
              /\ ~r.app.is_fetching
              /\ r.app.fetch_rx = None
              /\ r.app.last_error = Some(PleaseSelect)
              /\ r.app.logs_view.last_tail_instant = Some(now)
              /\ \A t \in TailInstants :
                    (t >= now /\ AsSecs(t - now) < r.app.logs_view.tail_interval_secs) =>
                        TailLogic([r EXCEPT !.app.last_error = None], t)
                            = [r EXCEPT !.app.last_error = None]
    /\ \A i \in 1..Len(queue) :
          queue[i].kind = "FetchRecentLogs" => Trim(queue[i].log_group) # <<>>

\* tail mode is on without a log group, the validation error of the trigger
\* 5.0 s ago is shown, and the timer fires again: the error is set anew, the
\* trigger time moves to now, nothing is sent
C35_Witness ==
    /\ TailDue
    /\ Trim(app.logs_view.log_group) = <<>>
    /\ app.logs_view.tail_interval_secs = 5
    /\ app.logs_view.last_tail_instant = Some(0)
    /\ now = 5000
    /\ app.last_error = Some(PleaseSelect)
    /\ TailLogic(AfterPoll, now).app.last_error = Some(PleaseSelect)
    /\ TailLogic(AfterPoll, now).app.logs_view.last_tail_instant = Some(5000)
    /\ TailLogic(AfterPoll, now).obs.sent = <<>>
    /\ ~TailLogic(AfterPoll, now).app.is_fetching

\* 4.9 s after such a trigger the timer does not fire
C35_QuietWithinInterval ==
    /\ ~TailDue
    /\ app.logs_view.tail_mode
    /\ Trim(app.logs_view.log_group) = <<>>
    /\ app.logs_view.last_tail_instant = Some(0)
    /\ now = 4900
    /\ TailLogic(AfterPoll, now) = AfterPoll

----------------------------------------------------------------------------
(* The tail interval and the fetches in flight *)

\* the inputs that ask for a manual fetch: the Fetch button, Enter in the filter
ManualFetchInputs == { [NoInput EXCEPT !.fetch = TRUE], PressEnter }

\* a fetch is in flight, tail mode is on and the interval since the last
\* trigger has elapsed
TailOverdue ==
    /\ app.logs_view.tail_mode
    /\ app.is_fetching
    /\ app.logs_view.last_tail_instant # None
    /\ AsSecs(now - Unwrap(app.logs_view.last_tail_instant))
           >= app.logs_view.tail_interval_secs

\* C36: the poll steps leave last_tail_instant as it was, whatever they
\* receive. When a fetch is in flight with tail mode on and the interval since
\* the last trigger elapsed, a frame whose poll does not end the wait fires
\* nothing and keeps the marker, and the frame whose poll ends it fires the
\* tail timer in that same frame: it records `now` and, with a log group
\* selected, sends the next fetch (into the queue while the worker lives). A frame with a manual fetch ends with the
\* marker its tail logic left, as does start_fetch_logs itself.
C36_IntervalFromTrigger ==
    /\ AfterPoll.app.logs_view.last_tail_instant = app.logs_view.last_tail_instant
    /\ (TailOverdue /\ Update(Machine, now, NoInput).ok) =>
          LET r == Update(Machine, now, NoInput) IN
          IF FetchRecv.tag = "Empty"
          THEN /\ ~r.obs.tail_fired
               /\ r.obs.sent = <<>>
               /\ r.app.logs_view.last_tail_instant = app.logs_view.last_tail_instant
          ELSE /\ r.obs.tail_fired
               /\ r.app.logs_view.last_tail_instant = Some(now)
               /\ Trim(app.logs_view.log_group) # <<>> =>
                     /\ r.obs.sent = <<"FetchRecentLogs">>
                     /\ r.app.is_fetching
                     /\ Machine.alive =>
                           /\ r.queue # <<>>
                           /\ r.queue[Len(r.queue)].kind = "FetchRecentLogs"
                           /\ r.queue[Len(r.queue)].lookback = Lookback5m
    /\ \A in \in ManualFetchInputs :
          LET t == TailLogic(AfterPoll, now) IN
          /\ Update(Machine, now, in).app.logs_view.last_tail_instant
                = t.app.logs_view.last_tail_instant
          /\ start_fetch_logs(t, Lookback5m).app.logs_view.last_tail_instant
                = t.app.logs_view.last_tail_instant

\* the fetch of the trigger at 0 is still in flight 5.0 s later with its result
\* buffered: the frame that merges it fires the timer again and sends the next
C36_Witness ==
    /\ TailOverdue
    /\ app.logs_view.last_tail_instant = Some(0)
    /\ now = 5000
    /\ FetchRecv.tag = "Value"
    /\ Update(Machine, now, NoInput).obs.fetch_poll = "ok"
    /\ Update(Machine, now, NoInput).obs.tail_fired
    /\ Update(Machine, now, NoInput).obs.sent = <<"FetchRecentLogs">>
    /\ Update(Machine, now, NoInput).app.logs_view.last_tail_instant = Some(5000)

\* a manual fetch is sent while the marker is recorded and the timer is not
\* due: the marker stays
C36_ManualKeepsMarker ==
    /\ app.logs_view.tail_mode
    /\ ~app.is_fetching
    /\ app.logs_view.last_tail_instant = Some(0)
    /\ now = 0
    /\ Update(Machine, now, PressEnter).obs.sent = <<"FetchRecentLogs">>
    /\ ~Update(Machine, now, PressEnter).obs.tail_fired
    /\ Update(Machine, now, PressEnter).app.logs_view.last_tail_instant = Some(0)

----------------------------------------------------------------------------
(* A list request and the fetch side *)

\* the fields of the view a fetch and the tail timer work with
FetchSide(a) ==
    [ log_group          |-> a.logs_view.log_group,
      filter_text        |-> a.logs_view.filter_text,
      entries            |-> a.logs_view.entries,
      is_fetching        |-> a.is_fetching,
      fetch_rx           |-> a.fetch_rx,
      tail_mode          |-> a.logs_view.tail_mode,
      tail_interval_secs |-> a.logs_view.tail_interval_secs,
      last_tail_instant  |-> a.logs_view.last_tail_instant ]

\* the machine as the top bar of this frame finds it
AtTopBar == TailLogic(AfterPoll, now)

ClickLoadAndFetch == Both(ClickLoad, [NoInput EXCEPT !.fetch = TRUE])

\* C37: start_load_log_groups, called where the Load groups button is enabled,
\* leaves the log_group text, the filter, the entries, the fetch flag and
\* handle and the tail settings as they were, and the channel of fetch_rx
\* untouched; a fetch issued right after it, with the group list empty, asks
\* for the log group that was in the text before (trimmed).
C37_ListLeavesFetchSide ==
    LET m == AtTopBar
        r == start_load_log_groups(m)
        f == start_fetch_logs(r, Lookback5m)
    IN  (LoadButtonEnabled(m) /\ r.ok) =>
        /\ FetchSide(r.app) = FetchSide(m.app)
        /\ m.app.fetch_rx # None =>
              r.chans[Unwrap(m.app.fetch_rx)] = m.chans[Unwrap(m.app.fetch_rx)]
        /\ r.app.logs_view.available_groups = <<>>
        /\ (f.ok /\ ~m.app.is_fetching /\ Trim(m.app.logs_view.log_group) # <<>>
                 /\ m.alive) =>
              /\ f.app.is_fetching
              /\ f.app.logs_view.available_groups = <<>>
              /\ f.queue[Len(f.queue)].kind = "FetchRecentLogs"
              /\ f.queue[Len(f.queue)].log_group = Trim(m.app.logs_view.log_group)

\* a group is selected and its entries are listed; one frame gets a click on
\* Load groups and one on Fetch: the list is emptied, the entries stay, and the
\* fetch request names the group selected before
C37_Witness ==
    /\ app.logs_view.selected_group_index = Some(0)
    /\ app.logs_view.log_group = GroupA
    /\ app.logs_view.entries # <<>>
    /\ ~app.is_fetching
    /\ ~app.is_loading_groups
    /\ worker.pc = "recv"
    /\ LET r == Update(Machine, now, ClickLoadAndFetch) IN
       /\ r.ok
       /\ r.obs.sent = <<"ListLogGroups", "FetchRecentLogs">>
       /\ r.app.logs_view.available_groups = <<>>
       /\ r.app.logs_view.selected_group_index = None
       /\ r.app.logs_view.entries = app.logs_view.entries
       /\ r.queue[Len(r.queue)].log_group = GroupA

----------------------------------------------------------------------------
(* The lookback of a time range *)

\* the quotient and the remainder of x by a small k, by long division on limbs
DivSmall(x, k) ==
    LET b == (x[1] % k) * Limb + x[2]
        c == (b % k) * Limb + x[3]
    IN  <<x[1] \div k, b \div k, c \div k>>

RemSmall(x, k) == ((((x[1] % k) * Limb + x[2]) % k) * Limb + x[3]) % k

\* x is a u64: limbs in range, not above u64::MAX
IsU64(x) ==
    /\ x[1] >= 0
    /\ x[2] \in 0..(Limb - 1)
    /\ x[3] \in 0..(Limb - 1)
    /\ LessEq(x, U64Max)

\* values of custom_value: 0, small values, values whose product by 60 carries
\* into the next limb, 2^32, the largest value whose product by 60 fits and the
\* one after it, 2^63, u64::MAX - 1 and u64::MAX
CustomValues ==
    { U64(0), U64(1), U64(2), U64(5), U64(30), U64(59), U64(60), U64(61),
      U64(166666), U64(166667), U64(9999999), U64(10000000),
      <<0, 429, 4967296>>, <<0, 9999999, 9999999>>, <<1, 0, 0>>,
      <<3074, 4573456, 1825859>>, <<3074, 4573456, 1825860>>,
      <<3074, 4573456, 1825861>>, <<92233, 7203685, 4775808>>,
      <<184467, 4407370, 9551614>>, U64Max }

TimeRangeConfigs ==
    [kind : TimeRangeKinds, custom_value : CustomValues, custom_is_minutes : BOOLEAN]

\* the application at start, with any time range configured
RangeInit ==
    \E cfg \in TimeRangeConfigs :
        /\ app = App_new
        /\ queue = <<>>
        /\ worker = [pc |-> "recv", req |-> None]
        /\ chans = [c \in ChanIds |-> ClosedChan]
        /\ now = 0
        /\ handles = Owners
        /\ time_range = [config |-> cfg, lookback |-> None]
        /\ obs = ObsIdle("env")

\* a call of lookback_duration on the configured time range
LookbackComputed ==
    /\ time_range.lookback = None
    /\ time_range' = [time_range EXCEPT !.lookback = Some(lookback_duration(time_range.config))]
    /\ UNCHANGED <<app, queue, worker, chans, now, handles, obs>>

RangeNext == LookbackComputed

RangeSpec == RangeInit /\ [][RangeNext]_vars

\* C38: every lookback computed is a u64 of at least one second: 300, 900 and
\* 3600 s for the fixed kinds; for Custom in seconds the value, or 1 for 0; for
\* Custom in minutes 60 times the value where that is at most u64::MAX (or 1
\* for 0), and u64::MAX where it is not.
C38_LookbackAtLeastOneSecond ==
    time_range.lookback # None =>
        LET cfg == time_range.config
            v   == cfg.custom_value
            d   == Unwrap(time_range.lookback)
        IN  /\ IsU64(d)
            /\ LessEq(U64(1), d)
            /\ cfg.kind = "Last5m"  => d = U64(300)
            /\ cfg.kind = "Last15m" => d = U64(900)
            /\ cfg.kind = "Last1h"  => d = U64(3600)
            /\ (cfg.kind = "Custom" /\ ~cfg.custom_is_minutes) =>
                  d = (IF v = U64(0) THEN U64(1) ELSE v)
            /\ (cfg.kind = "Custom" /\ cfg.custom_is_minutes) =>
                  IF v = U64(0) THEN d = U64(1)
                  ELSE IF LessEq(v, DivSmall(U64Max, 60))
                  THEN DivSmall(d, 60) = v /\ RemSmall(d, 60) = 0
                  ELSE d = U64Max

\* the smallest number of minutes whose product by 60 exceeds u64::MAX: the
\* lookback is u64::MAX seconds
C38_Witness ==
    /\ time_range.config.kind = "Custom"
    /\ time_range.config.custom_is_minutes
    /\ time_range.config.custom_value = <<3074, 4573456, 1825861>>
    /\ time_range.lookback = Some(U64Max)

\* the largest number of minutes whose product by 60 fits
C38_LargestExact ==
    /\ time_range.config.kind = "Custom"
    /\ time_range.config.custom_is_minutes
    /\ time_range.config.custom_value = <<3074, 4573456, 1825860>>
    /\ time_range.lookback = Some(<<184467, 4407370, 9551600>>)

\* zero seconds become one
C38_ZeroBecomesOne ==
    /\ time_range.config.kind = "Custom"
    /\ time_range.config.custom_value = U64(0)
    /\ time_range.lookback = Some(U64(1))

====
